---- MODULE Spec2Model ----
(***************************************************************************)
(* Model of the analytics and recurring-transaction services of the        *)
(* finance tracker.                                                        *)
(*                                                                         *)
(* Dates.  The code keeps calendar dates as ISO strings 'YYYY-MM-DD' and   *)
(* turns them into Date objects with new Date(s), i.e. the instant of UTC  *)
(* midnight of that day.  The model writes both as the number of days      *)
(* since 1970-01-01; the calendar fields that Date's local-time getters    *)
(* and setters work on are computed by CivilFromDays / DaysFromCivil.      *)
(* The runtime's time zone is a parameter of the run (tz): 0 when local    *)
(* time is at or ahead of UTC (the local calendar day of a UTC midnight is *)
(* the same day), 1 when local time is behind UTC (it is the previous      *)
(* day).  Daylight-saving shifts are not modelled.                         *)
(*                                                                         *)
(* The store (supabase) is modelled as tables whose single statements are  *)
(* atomic; update statements are taken to succeed, select and insert may   *)
(* return an error as the code provides for.                               *)
(***************************************************************************)
EXTENDS Integers, Sequences, FiniteSets, TLC

VARIABLES
    tz,               \* time-zone parameter of the runtime (see above)
    clock,            \* the current UTC date
    recurring_rules,  \* table recurring_rules: rule id -> row
    transactions,     \* table transactions: the rows the check inserts (a sequence),
                      \* or the rows the analytics read (a set)
    run,              \* per caller: the locals of checkAndCreateRecurringTransactions
    nRuns,            \* number of checks started so far
    overlapped,       \* history: some check started while another was in flight
    lastDate,         \* getNextOccurrence on its own: argument lastDate
    frequency,        \* getNextOccurrence on its own: argument frequency
    nextDate,         \* getNextOccurrence on its own: returned date (NULL before the call)
    returned,         \* analytics: name of the function that has returned, or "none"
    suggestions,      \* value returned by detectRecurringTransactions
    alerts,           \* value returned by detectAnomalies
    timeOfDay,        \* how far into the UTC day `clock` the current instant is (0: midnight)
    health,           \* value returned by getSpendingHealthScore
    monthsAhead,      \* forecastCashFlow: argument monthsAhead
    forecasts,        \* value returned by forecastCashFlow
    patterns,         \* value returned by analyzeCategoryPatterns
    trendInput,       \* calculateTrend on its own: argument values
    trendRatio,       \* calculateTrend on its own: returned ratio (<<>> before the call)
    subscriptions,    \* table subscriptions (a set of rows)
    budgets,          \* table budgets (a set of rows)
    loans,            \* table loans (a set of rows)
    notifications_log,\* table notifications_log (a sequence of rows)
    sent,             \* history: the payloads handed to sendNotification, in order
    insertFailed,     \* history: the notification types for which a statement inside a
                      \* check (a log insert, a per-budget select) returned an error
    checks,           \* history: the notification checks run so far, in order
    imports           \* history: batch and result of every saveBankImportTransactions call

vars == <<tz, clock, recurring_rules, transactions, run, nRuns, overlapped,
          lastDate, frequency, nextDate, returned, suggestions, alerts,
          timeOfDay, health, monthsAhead, forecasts, patterns, trendInput,
          trendRatio,
          subscriptions, budgets, loans, notifications_log, sent, insertFailed,
          checks, imports>>

recurVars == <<clock, recurring_rules, transactions, run, nRuns, overlapped>>
nextVars == <<lastDate, frequency, nextDate>>
anaVars == <<returned, suggestions, alerts>>
insightVars == <<health, forecasts, patterns>>
notifyVars == <<subscriptions, budgets, loans, notifications_log, sent, insertFailed, checks>>
trendVars == <<trendInput, trendRatio>>
peerVars == <<timeOfDay, monthsAhead, insightVars, trendVars, notifyVars, imports>>

NULL == 0 - 1

\* the values of the analytics results, and the notification tables and
\* histories, before anything ran
NoHealth == [score |-> NULL, category |-> "none"]

InsightsIdle ==
    /\ health = NoHealth
    /\ forecasts = <<>>
    /\ patterns = <<>>
    /\ trendInput = <<>>
    /\ trendRatio = <<>>

NotifyIdle ==
    /\ subscriptions = {}
    /\ budgets = {}
    /\ loans = {}
    /\ notifications_log = <<>>
    /\ sent = <<>>
    /\ insertFailed = {}
    /\ checks = <<>>

----------------------------------------------------------------------------
(* Calendar arithmetic of the Date object (proleptic Gregorian calendar).  *)

IsLeap(y) == (y % 4 = 0 /\ y % 100 # 0) \/ y % 400 = 0

DaysInMonth(y, m) ==
    IF m = 2 THEN (IF IsLeap(y) THEN 29 ELSE 28)
    ELSE IF m \in {4, 6, 9, 11} THEN 30 ELSE 31

\* day number of the calendar day y-m-d; d may lie outside the month, in
\* which case the day count simply runs on (ECMAScript MakeDay)
DaysFromCivil(y, m, d) ==
    LET yy  == IF m <= 2 THEN y - 1 ELSE y
        era == yy \div 400
        yoe == yy - era * 400
        mp  == IF m > 2 THEN m - 3 ELSE m + 9
        doy == (153 * mp + 2) \div 5 + d - 1
        doe == yoe * 365 + yoe \div 4 - yoe \div 100 + doy
    IN  era * 146097 + doe - 719468

CivilFromDays(z) ==
    LET zz  == z + 719468
        era == zz \div 146097
        doe == zz - era * 146097
        yoe == (doe - doe \div 1460 + doe \div 36524 - doe \div 146096) \div 365
        doy == doe - (365 * yoe + yoe \div 4 - yoe \div 100)
        mp  == (5 * doy + 2) \div 153
        d   == doy - (153 * mp + 2) \div 5 + 1
        m   == IF mp < 10 THEN mp + 3 ELSE mp - 9
        y   == yoe + era * 400 + (IF m <= 2 THEN 1 ELSE 0)
    IN  [y |-> y, m |-> m, d |-> d]

\* local calendar day seen by getDate/getMonth for the instant UTC midnight
\* of day z, and the UTC date (toISOString) of that local day's instant
LocalDay(z) == z - tz
UtcDay(l) == l + tz

----------------------------------------------------------------------------
(* recurringTransactionService: date helpers                               *)

Frequencies == {"daily", "weekly", "biweekly", "monthly", "quarterly", "yearly"}

addDays(date, days) == UtcDay(LocalDay(date) + days)

addMonths(date, months) ==
    LET c  == CivilFromDays(LocalDay(date))
        mi == (c.m - 1) + months
    IN  UtcDay(DaysFromCivil(c.y + mi \div 12, (mi % 12) + 1, c.d))

getNextOccurrence(last, freq) ==
    CASE freq = "daily"     -> addDays(last, 1)
      [] freq = "weekly"    -> addDays(last, 7)
      [] freq = "biweekly"  -> addDays(last, 14)
      [] freq = "monthly"   -> addMonths(last, 1)
      [] freq = "quarterly" -> addMonths(last, 3)
      [] freq = "yearly"    -> addMonths(last, 12)
      [] OTHER              -> addDays(last, 1)

----------------------------------------------------------------------------
(* getNextOccurrence on its own: the argument is drawn from every day of   *)
(* a range that contains a leap February and a common-year February.       *)

FirstDate == DaysFromCivil(2023, 12, 1)
DateSpan == 460

InitNext ==
    /\ tz \in {0, 1}
    /\ lastDate \in FirstDate .. (FirstDate + DateSpan)
    /\ frequency \in Frequencies
    /\ nextDate = NULL
    /\ clock = 0
    /\ recurring_rules = <<>>
    /\ transactions = <<>>
    /\ run = <<>>
    /\ nRuns = 0
    /\ overlapped = FALSE
    /\ returned = "none"
    /\ suggestions = <<>>
    /\ alerts = <<>>
    /\ timeOfDay = 0
    /\ monthsAhead = 3
    /\ InsightsIdle
    /\ NotifyIdle
    /\ imports = <<>>

CallGetNextOccurrence ==
    /\ nextDate = NULL
    /\ nextDate' = getNextOccurrence(lastDate, frequency)
    /\ UNCHANGED <<tz, lastDate, frequency, recurVars, anaVars, peerVars>>

NextNext == CallGetNextOccurrence

SpecNext == InitNext /\ [][NextNext]_vars

\* the number of calendar months a month-based frequency stands for
MonthsOf(freq) ==
    CASE freq = "monthly" -> 1 [] freq = "quarterly" -> 3 [] freq = "yearly" -> 12

\* the calendar date `months` months after `date`, the day of the month
\* clamped to the length of the target month
ClampedMonthsLater(date, months) ==
    LET c  == CivilFromDays(date)
        mi == (c.m - 1) + months
        y  == c.y + mi \div 12
        m  == (mi % 12) + 1
        d  == IF c.d > DaysInMonth(y, m) THEN DaysInMonth(y, m) ELSE c.d
    IN  DaysFromCivil(y, m, d)

\* C6 as claimed: for a monthly, quarterly or yearly frequency
\* getNextOccurrence returns the date 1, 3 or 12 calendar months later with
\* the day of the month clamped to the target month.
C6_ClampedCalendarMonths ==
    (nextDate # NULL /\ frequency \in {"monthly", "quarterly", "yearly"}) =>
        nextDate = ClampedMonthsLater(lastDate, MonthsOf(frequency))

----------------------------------------------------------------------------
(* Rows of table transactions as the analytics read them.  created_at is   *)
(* in minutes since the epoch.                                             *)

\* category_id of a row without a category (null)
NoCategory == "none"

Txn(id, merchant, amount, type, date, category, created) ==
    [id |-> id, merchant |-> merchant, amount |-> amount, type |-> type,
     transaction_date |-> date, category_id |-> category,
     account_id |-> "acc-1", created_at |-> created]

\* threeMonthsAgo: setMonth(getMonth() - 3) on the current date (the time
\* of day of now is not modelled)
ThreeMonthsAgo(today) == addMonths(today, 0 - 3)

\* .order('transaction_date', { ascending: false }); rows of one date are
\* taken in id order
RECURSIVE OrderByDateDesc(_)
OrderByDateDesc(S) ==
    IF S = {} THEN <<>>
    ELSE LET r == CHOOSE x \in S : \A y \in S :
                     \/ x.transaction_date > y.transaction_date
                     \/ x.transaction_date = y.transaction_date /\ x.id <= y.id
         IN  <<r>> \o OrderByDateDesc(S \ {r})

----------------------------------------------------------------------------
(* detectRecurringTransactions                                             *)

\* lines 1093-1099
FetchExpenses(today) ==
    OrderByDateDesc({t \in transactions :
                        t.type = "expense" /\ t.transaction_date >= ThreeMonthsAgo(today)})

\* line 1108
GroupKey(txn) == txn.merchant \o "-" \o ToString(txn.amount)

\* the keys of merchantGroups in insertion order (Object.entries)
RECURSIVE KeysInOrder(_)
KeysInOrder(txns) ==
    IF txns = <<>> THEN <<>>
    ELSE LET front == KeysInOrder(SubSeq(txns, 1, Len(txns) - 1))
             k     == GroupKey(txns[Len(txns)])
         IN  IF \E j \in 1 .. Len(front) : front[j] = k THEN front ELSE Append(front, k)

\* merchantGroups[key]
GroupOf(txns, k) == SelectSeq(txns, LAMBDA t : GroupKey(t) = k)

\* variant of line 1118: the group left in the order of the select
SortByDate_Unsorted(txns) == txns

\* line 1118: Array.prototype.sort by transaction_date ascending (stable)
RECURSIVE SortByDate(_)
SortByDate(txns) ==
    IF txns = <<>> THEN <<>>
    ELSE LET front == SortByDate(SubSeq(txns, 1, Len(txns) - 1))
             t     == txns[Len(txns)]
             k     == Cardinality({j \in 1 .. Len(front) :
                                     front[j].transaction_date <= t.transaction_date})
         IN  SubSeq(front, 1, k) \o <<t>> \o SubSeq(front, k + 1, Len(front))

\* lines 1120-1129
RECURSIVE TotalDayDiff(_)
TotalDayDiff(txns) ==
    IF Len(txns) < 2 THEN 0
    ELSE LET n == Len(txns)
             d == txns[n].transaction_date - txns[n - 1].transaction_date
         IN  TotalDayDiff(SubSeq(txns, 1, n - 1)) + (IF d < 0 THEN 0 - d ELSE d)

\* variant of lines 1135-1140 with inclusive thresholds
ClassifyFrequency_Inclusive(totalDayDiff, count) ==
    IF totalDayDiff <= 2 * count THEN "daily"
    ELSE IF totalDayDiff <= 10 * count THEN "weekly"
    ELSE IF totalDayDiff <= 20 * count THEN "biweekly"
    ELSE IF totalDayDiff <= 60 * count THEN "monthly"
    ELSE IF totalDayDiff <= 120 * count THEN "quarterly"
    ELSE "yearly"

\* lines 1131-1140: avgDayDiff = totalDayDiff / count against the thresholds
ClassifyFrequency(totalDayDiff, count) ==
    IF totalDayDiff < 2 * count THEN "daily"
    ELSE IF totalDayDiff < 10 * count THEN "weekly"
    ELSE IF totalDayDiff < 20 * count THEN "biweekly"
    ELSE IF totalDayDiff < 60 * count THEN "monthly"
    ELSE IF totalDayDiff < 120 * count THEN "quarterly"
    ELSE "yearly"

\* lines 1118-1155 for one group
Suggestion(group) ==
    LET txns == SortByDate(group)
        freq == ClassifyFrequency(TotalDayDiff(txns), Len(txns) - 1)
    IN  [merchant |-> IF txns[1].merchant = "" THEN "Unknown" ELSE txns[1].merchant,
         amount |-> txns[1].amount,
         frequency |-> freq,
         start_date |-> txns[1].transaction_date,
         next_occurrence |-> getNextOccurrence(txns[Len(txns)].transaction_date, freq),
         is_active |-> TRUE,
         auto_create |-> FALSE,
         account_id |-> txns[1].account_id,
         category_id |-> txns[1].category_id]

\* lines 1105-1156
RECURSIVE SuggestionsFor(_, _)
SuggestionsFor(txns, keys) ==
    IF keys = <<>> THEN <<>>
    ELSE LET front == SuggestionsFor(txns, SubSeq(keys, 1, Len(keys) - 1))
             group == GroupOf(txns, keys[Len(keys)])
         IN  IF Len(group) < 2 THEN front ELSE Append(front, Suggestion(group))

detectRecurringTransactions(today) ==
    LET txns == FetchExpenses(today)
    IN  SuggestionsFor(txns, KeysInOrder(txns))

MaxOccurrences == 4

DetectToday == DaysFromCivil(2024, 4, 1)

DetectDates ==
    {DaysFromCivil(2023, 12, 31), DaysFromCivil(2024, 1, 1), DaysFromCivil(2024, 1, 2),
     DaysFromCivil(2024, 1, 3), DaysFromCivil(2024, 1, 11), DaysFromCivil(2024, 1, 21),
     DaysFromCivil(2024, 1, 31), DaysFromCivil(2024, 2, 1), DaysFromCivil(2024, 3, 1), DaysFromCivil(2024, 4, 1),
     DaysFromCivil(2024, 4, 30)}

\* one row per date of D for the merchant and amount numbered n
RowsOn(n, merchant, amount, type, D) ==
    {Txn(d * 10 + n, merchant, amount, type, d, "cat-1", d * 1440) : d \in D}

InitDetect ==
    /\ tz \in {0, 1}
    /\ clock = DetectToday
    /\ \E D1 \in {D \in SUBSET DetectDates : Cardinality(D) <= MaxOccurrences},
          D2 \in SUBSET {DaysFromCivil(2024, 1, 1), DaysFromCivil(2024, 2, 1)},
          D3 \in SUBSET {DaysFromCivil(2024, 1, 2), DaysFromCivil(2024, 1, 3)},
          D4 \in SUBSET {DaysFromCivil(2024, 1, 11)},
          D5 \in SUBSET {DaysFromCivil(2024, 1, 1)} :
          transactions = RowsOn(1, "Netflix", 499, "expense", D1)
                            \cup RowsOn(2, "Netflix", 199, "expense", D2)
                            \cup RowsOn(3, "", 499, "expense", D3)
                            \cup RowsOn(4, "Netflix", 499, "income", D4)
                            \cup RowsOn(5, "Netflix", 499, "expense", D5)
    /\ recurring_rules = <<>>
    /\ run = <<>>
    /\ nRuns = 0
    /\ overlapped = FALSE
    /\ lastDate = NULL
    /\ frequency = "daily"
    /\ nextDate = NULL
    /\ returned = "none"
    /\ suggestions = <<>>
    /\ alerts = <<>>
    /\ timeOfDay = 0
    /\ monthsAhead = 3
    /\ InsightsIdle
    /\ NotifyIdle
    /\ imports = <<>>

\* lines 1086-1162
CallDetectRecurring ==
    /\ returned = "none"
    /\ returned' = "detectRecurringTransactions"
    /\ suggestions' = detectRecurringTransactions(clock)
    /\ UNCHANGED <<tz, recurVars, nextVars, alerts, peerVars>>

\* lines 1101-1103: the select failed
DetectSelectError ==
    /\ returned = "none"
    /\ returned' = "select error"
    /\ suggestions' = <<>>
    /\ UNCHANGED <<tz, recurVars, nextVars, alerts, peerVars>>

NextDetect == CallDetectRecurring \/ DetectSelectError

SpecDetect == InitDetect /\ [][NextDetect]_vars

----------------------------------------------------------------------------
(* advancedAnalytics: detectAnomalies.  Amounts are whole numbers and the  *)
(* mean and deviation are compared in exact arithmetic (every quantity is  *)
(* scaled by the sample size), not in rounded doubles.                     *)

\* lines 322-327
FetchWindow(today) ==
    OrderByDateDesc({t \in transactions : t.transaction_date >= ThreeMonthsAgo(today)})

RecentCount == 10

\* variant of line 333 without the slice
RecentTransactions_All(txns) == txns

\* line 333: transactions.slice(0, 10)
RecentTransactions(txns) ==
    SubSeq(txns, 1, IF Len(txns) < RecentCount THEN Len(txns) ELSE RecentCount)

Abs(x) == IF x < 0 THEN 0 - x ELSE x

\* lines 338-344: |t.amount - txn.amount| < txn.amount * 0.2
SimilarTo(txns, txn) ==
    SelectSeq(txns, LAMBDA t :
        /\ t.category_id = txn.category_id
        /\ t.type = "expense"
        /\ t.id # txn.id
        /\ 5 * Abs(t.amount - txn.amount) < txn.amount)

RECURSIVE SumSeq(_)
SumSeq(xs) == IF xs = <<>> THEN 0 ELSE xs[Len(xs)] + SumSeq(SubSeq(xs, 1, Len(xs) - 1))

\* variant of lines 348-352 with one deviation in place of two
ExceedsTwoSigma_OneSigma(amount, amounts) ==
    LET n    == Len(amounts)
        sum  == SumSeq(amounts)
        sqs  == SumSeq([k \in 1 .. n |-> (n * amounts[k] - sum) * (n * amounts[k] - sum)])
        lead == n * amount - sum
    IN  lead > 0 /\ n * lead * lead > sqs

\* lines 348-352 with n = amounts.length: avgAmount = sum / n,
\* stdDev = sqrt(sum of (x - avgAmount)^2 / n), amount > avgAmount + 2 * stdDev
ExceedsTwoSigma(amount, amounts) ==
    LET n    == Len(amounts)
        sum  == SumSeq(amounts)
        sqs  == SumSeq([k \in 1 .. n |-> (n * amounts[k] - sum) * (n * amounts[k] - sum)])
        lead == n * amount - sum
    IN  lead > 0 /\ n * lead * lead > 4 * sqs

\* lines 353-360 (title and description left out)
SpikeAlert(txn) ==
    [type |-> "sudden_spike", severity |-> "high",
     amount |-> txn.amount, date |-> txn.transaction_date]

\* lines 335-362
RECURSIVE SpikeAlerts(_, _)
SpikeAlerts(txns, recent) ==
    IF recent = <<>> THEN <<>>
    ELSE LET front   == SpikeAlerts(txns, SubSeq(recent, 1, Len(recent) - 1))
             txn     == recent[Len(recent)]
             similar == SimilarTo(txns, txn)
             amounts == <<txn.amount>> \o [k \in 1 .. Len(similar) |-> similar[k].amount]
         IN  IF txn.type # "expense" THEN front
             ELSE IF Len(similar) = 0 THEN front
             ELSE IF ExceedsTwoSigma(txn.amount, amounts) THEN Append(front, SpikeAlert(txn))
             ELSE front

\* variant of lines 401-406 with timeDiff <= 60
IsDuplicatePair_Inclusive(t1, t2) ==
    LET timeDiff == Abs(t1.created_at - t2.created_at) IN
    /\ t1.amount = t2.amount
    /\ t1.type = t2.type
    /\ timeDiff <= 60
    /\ timeDiff > 0

\* lines 397-406: created_at is in minutes
IsDuplicatePair(t1, t2) ==
    LET timeDiff == Abs(t1.created_at - t2.created_at) IN
    /\ t1.amount = t2.amount
    /\ t1.type = t2.type
    /\ timeDiff < 60
    /\ timeDiff > 0

\* lines 389-415: the pairs i < j in scan order; a pair is skipped when its
\* key `${t1.id}-${t2.id}` is already in checked
RECURSIVE ScanPairs(_, _, _, _)
ScanPairs(txns, i, j, checked) ==
    IF i > Len(txns) THEN <<>>
    ELSE IF j > Len(txns) THEN ScanPairs(txns, i + 1, i + 2, checked)
    ELSE LET key == <<txns[i].id, txns[j].id>> IN
         IF key \notin checked /\ IsDuplicatePair(txns[i], txns[j])
         THEN <<[merchants |-> <<IF txns[i].merchant = "" THEN "Unknown" ELSE txns[i].merchant,
                                 IF txns[j].merchant = "" THEN "Unknown" ELSE txns[j].merchant>>,
                 amount |-> txns[i].amount,
                 date |-> txns[i].transaction_date]>>
              \o ScanPairs(txns, i, j + 1, checked \cup {key})
         ELSE ScanPairs(txns, i, j + 1, checked)

\* lines 383-418
findDuplicateTransactions(txns) == ScanPairs(txns, 1, 2, {})

\* lines 364-374 (title and description left out)
DuplicateAlerts(dups) ==
    [k \in 1 .. Len(dups) |->
        [type |-> "duplicate", severity |-> "medium",
         amount |-> dups[k].amount, date |-> dups[k].date]]

\* lines 315-381
detectAnomalies(today) ==
    LET txns == FetchWindow(today) IN
    IF Len(txns) = 0 THEN <<>>
    ELSE SpikeAlerts(txns, RecentTransactions(txns))
            \o DuplicateAlerts(findDuplicateTransactions(txns))

MaxHistory == 11

\* the amount of history row k: all 100, or the amounts 100, 102, 98, 101
\* over again
HistoryAmount(pattern, k) ==
    IF pattern = "flat" THEN 100 ELSE <<100, 102, 98, 101>>[((k - 1) % 4) + 1]

\* a ledger of n history expenses of one category and one further
\* transaction, which is the pos-th most recent of all; rows are one day
\* and `gap` minutes of creation apart
AnomalyLedger(n, pattern, pos, amount, type, category, gap, old) ==
    {Txn(k, "Shop", HistoryAmount(pattern, k), "expense",
         DetectToday - (IF k < pos THEN k - 1 ELSE k), "cat-1",
         DetectToday * 1440 - (IF k < pos THEN k - 1 ELSE k) * gap) : k \in 1 .. n}
    \cup {Txn(0, "Mall", amount, type, DetectToday - (pos - 1), category,
              DetectToday * 1440 - (pos - 1) * gap)}
    \cup (IF old THEN {Txn(99, "Shop", 100, "expense", DaysFromCivil(2023, 12, 31),
                           "cat-1", DaysFromCivil(2023, 12, 31) * 1440)}
                 ELSE {})

InitAnomalies ==
    /\ tz \in {0, 1}
    /\ clock = DetectToday
    /\ \/ transactions = {}
       \/ \E n \in 0 .. MaxHistory, pattern \in {"flat", "example"},
             amount \in {100, 103, 119, 125, 500}, type \in {"expense", "income"},
             category \in {"cat-1", "cat-2"}, gap \in {0, 10, 30, 90, 1000},
             old \in BOOLEAN :
             \E pos \in 1 .. n + 1 :
                /\ (gap \in {0, 10, 90} \/ amount = 100)
                      => (pattern = "flat" /\ category = "cat-1" /\ ~old)
                /\ transactions = AnomalyLedger(n, pattern, pos, amount, type, category, gap, old)
    /\ recurring_rules = <<>>
    /\ run = <<>>
    /\ nRuns = 0
    /\ overlapped = FALSE
    /\ lastDate = NULL
    /\ frequency = "daily"
    /\ nextDate = NULL
    /\ returned = "none"
    /\ suggestions = <<>>
    /\ alerts = <<>>
    /\ timeOfDay = 0
    /\ monthsAhead = 3
    /\ InsightsIdle
    /\ NotifyIdle
    /\ imports = <<>>

\* lines 315-381
CallDetectAnomalies ==
    /\ returned = "none"
    /\ returned' = "detectAnomalies"
    /\ alerts' = detectAnomalies(clock)
    /\ UNCHANGED <<tz, recurVars, nextVars, suggestions, peerVars>>

\* lines 322-331: the select returned no data
AnomaliesSelectError ==
    /\ returned = "none"
    /\ returned' = "select error"
    /\ alerts' = <<>>
    /\ UNCHANGED <<tz, recurVars, nextVars, suggestions, peerVars>>

NextAnomalies == CallDetectAnomalies \/ AnomaliesSelectError

SpecAnomalies == InitAnomalies /\ [][NextAnomalies]_vars

----------------------------------------------------------------------------
(* checkAndCreateRecurringTransactions against the store                   *)

Procs == {1, 2}
RuleIds == {1, 2}
MaxRuns == 2
MaxTicks == 1

Today0 == DaysFromCivil(2024, 1, 31)

\* the columns of a rule that the check copies into the ledger entry
RuleFacts(id) ==
    IF id = 1
    THEN [merchant |-> "Netflix", amount |-> 499, category_id |-> "cat-1", account_id |-> "acc-1"]
    ELSE [merchant |-> "Gym", amount |-> 1200, category_id |-> "null", account_id |-> "acc-2"]

Rule(id, freq, endd, nxt, auto) ==
    [id |-> id, frequency |-> freq, end_date |-> endd, next_occurrence |-> nxt,
     is_active |-> TRUE, auto_create |-> auto,
     merchant |-> RuleFacts(id).merchant, amount |-> RuleFacts(id).amount,
     category_id |-> RuleFacts(id).category_id, account_id |-> RuleFacts(id).account_id]

IdleRun ==
    [pc |-> "idle", today |-> NULL, rules |-> <<>>, i |-> 1,
     rulesTriggered |-> <<>>, transactionsCreated |-> 0, failedCreations |-> 0,
     attempts |-> <<>>]

Init ==
    /\ tz \in {0, 1}
    /\ clock = Today0
    /\ \E f1 \in Frequencies,
          d1 \in {<<Today0 - 20, NULL>>, <<Today0 - 20, Today0 - 10>>, <<Today0 + 1, NULL>>},
          a1 \in BOOLEAN,
          e2 \in {NULL, Today0 - 10},
          a2 \in BOOLEAN :
          \* two auto_create rules only in a few of the combinations
          /\ a2 => (a1 /\ e2 = NULL /\ d1 = <<Today0 - 20, NULL>> /\ f1 \in {"daily", "monthly"})
          /\ recurring_rules = [id \in RuleIds |->
                                  IF id = 1 THEN Rule(1, f1, d1[2], d1[1], a1)
                                            ELSE Rule(2, "weekly", e2, Today0 - 7, a2)]
    /\ transactions = <<>>
    /\ run = [p \in Procs |-> IdleRun]
    /\ nRuns = 0
    /\ overlapped = FALSE
    /\ lastDate = NULL
    /\ frequency = "daily"
    /\ nextDate = NULL
    /\ returned = "none"
    /\ suggestions = <<>>
    /\ alerts = <<>>
    /\ timeOfDay = 0
    /\ monthsAhead = 3
    /\ InsightsIdle
    /\ NotifyIdle
    /\ imports = <<>>

\* the rows of a select without ORDER BY, taken in primary-key order
RowsById(S) ==
    CHOOSE s \in [1 .. Cardinality(S) -> S] :
        \A a, b \in 1 .. Cardinality(S) : a < b => s[a] < s[b]

\* variant of the select without the is_active filter
DueRules_AnyStatus(today) ==
    {id \in RuleIds : recurring_rules[id].next_occurrence <= today}

\* .eq('is_active', true).lte('next_occurrence', today)
DueRules(today) ==
    {id \in RuleIds : recurring_rules[id].is_active
                      /\ recurring_rules[id].next_occurrence <= today}

InFlight(p) == run[p].pc \in {"loop", "update"}

\* the loop moves to the next rule, or the function returns after the last
Advance(r) ==
    [r EXCEPT !.i = r.i + 1,
              !.pc = IF r.i + 1 > Len(r.rules) THEN "done" ELSE "loop"]

Tick ==
    /\ clock < Today0 + MaxTicks
    /\ clock' = clock + 1
    /\ UNCHANGED <<tz, recurring_rules, transactions, run, nRuns, overlapped, nextVars, anaVars, peerVars>>

\* lines 1017-1033: the locals of a run after today, the select, and the
\* early return on an empty result
Snapshot(today) ==
    LET rows == RowsById(DueRules(today)) IN
    [IdleRun EXCEPT !.today = today,
                    !.rules = [k \in 1 .. Len(rows) |-> recurring_rules[rows[k]]],
                    !.pc = IF Len(rows) = 0 THEN "done" ELSE "loop"]

\* lines 1017-1033: today, the select, and the two early returns
SelectRules(p) ==
    /\ ~InFlight(p)
    /\ nRuns < MaxRuns
    /\ nRuns' = nRuns + 1
    /\ overlapped' = (overlapped \/ \E q \in Procs \ {p} : InFlight(q))
    /\ run' = [run EXCEPT ![p] = Snapshot(clock)]
    /\ UNCHANGED <<tz, clock, recurring_rules, transactions, nextVars, anaVars, peerVars>>

SelectError(p) ==
    /\ ~InFlight(p)
    /\ nRuns < MaxRuns
    /\ nRuns' = nRuns + 1
    /\ overlapped' = (overlapped \/ \E q \in Procs \ {p} : InFlight(q))
    /\ run' = [run EXCEPT ![p] = [IdleRun EXCEPT !.today = clock, !.pc = "done"]]
    /\ UNCHANGED <<tz, clock, recurring_rules, transactions, nextVars, anaVars, peerVars>>

CurrentRule(p) == run[p].rules[run[p].i]

\* line 1039
PastEnd(rule) == rule.end_date # NULL /\ rule.next_occurrence > rule.end_date

\* lines 1039-1045
Deactivate(p) ==
    /\ run[p].pc = "loop"
    /\ PastEnd(CurrentRule(p))
    /\ recurring_rules' = [recurring_rules EXCEPT ![CurrentRule(p).id].is_active = FALSE]
    /\ run' = [run EXCEPT ![p] = Advance(run[p])]
    /\ UNCHANGED <<tz, clock, transactions, nRuns, overlapped, nextVars, anaVars, peerVars>>

\* variant of line 1056: the entry dated with the occurrence instead of today
LedgerEntry_DatedOccurrence(rule, today) ==
    [account_id |-> rule.account_id, category_id |-> rule.category_id,
     amount |-> rule.amount, type |-> "expense", merchant |-> rule.merchant,
     transaction_date |-> rule.next_occurrence, recurring_rule_id |-> rule.id,
     occurrence |-> rule.next_occurrence]

\* the row of lines 1048-1060 (occurrence is history: the due date acted on)
LedgerEntry(rule, today) ==
    [account_id |-> rule.account_id, category_id |-> rule.category_id,
     amount |-> rule.amount, type |-> "expense", merchant |-> rule.merchant,
     transaction_date |-> today, recurring_rule_id |-> rule.id,
     occurrence |-> rule.next_occurrence]

\* lines 1047-1067
InsertTransaction(p) ==
    /\ run[p].pc = "loop"
    /\ ~PastEnd(CurrentRule(p))
    /\ CurrentRule(p).auto_create
    /\ \E ok \in BOOLEAN :
         LET entry   == LedgerEntry(CurrentRule(p), run[p].today)
             attempt == [created |-> ok] @@ entry
         IN
         /\ transactions' = IF ok THEN Append(transactions, entry) ELSE transactions
         /\ run' = [run EXCEPT ![p].pc = "update",
                               ![p].attempts = Append(@, attempt),
                               ![p].transactionsCreated = IF ok THEN @ + 1 ELSE @,
                               ![p].failedCreations = IF ok THEN @ ELSE @ + 1]
    /\ UNCHANGED <<tz, clock, recurring_rules, nRuns, overlapped, nextVars, anaVars, peerVars>>

\* variants of line 1069: advancing from today, and not advancing
NewNextOccurrence_FromToday(rule, today) == getNextOccurrence(today, rule.frequency)

NewNextOccurrence_Unchanged(rule, today) == rule.next_occurrence

\* variant of line 1069 that advances the value the store holds at the
\* time of the write
NewNextOccurrence_FromStored(rule, today) ==
    getNextOccurrence(recurring_rules[rule.id].next_occurrence, rule.frequency)

\* variant of line 1069 that never writes a date after today
NewNextOccurrence_CappedAtToday(rule, today) ==
    LET next == getNextOccurrence(rule.next_occurrence, rule.frequency)
    IN  IF next > today THEN today ELSE next

\* line 1069
NewNextOccurrence(rule, today) == getNextOccurrence(rule.next_occurrence, rule.frequency)

\* variant of lines 1062-1077 that goes on to the next rule when the insert
\* returned an error
UpdateNextOccurrence_OnlyCreated(p) ==
    /\ \/ run[p].pc = "update"
       \/ run[p].pc = "loop" /\ ~PastEnd(CurrentRule(p)) /\ ~CurrentRule(p).auto_create
    /\ LET failed == /\ run[p].pc = "update"
                     /\ ~run[p].attempts[Len(run[p].attempts)].created
       IN  /\ recurring_rules' =
                 IF failed THEN recurring_rules
                 ELSE [recurring_rules EXCEPT ![CurrentRule(p).id].next_occurrence =
                                          NewNextOccurrence(CurrentRule(p), run[p].today)]
           /\ run' = [run EXCEPT ![p] =
                        Advance(IF failed THEN run[p]
                                ELSE [run[p] EXCEPT !.rulesTriggered =
                                                        Append(@, CurrentRule(p).id)])]
    /\ UNCHANGED <<tz, clock, transactions, nRuns, overlapped, nextVars, anaVars, peerVars>>

\* lines 1069-1077
UpdateNextOccurrence(p) ==
    /\ \/ run[p].pc = "update"
       \/ run[p].pc = "loop" /\ ~PastEnd(CurrentRule(p)) /\ ~CurrentRule(p).auto_create
    /\ recurring_rules' =
          [recurring_rules EXCEPT ![CurrentRule(p).id].next_occurrence =
                                      NewNextOccurrence(CurrentRule(p), run[p].today)]
    /\ run' = [run EXCEPT ![p] = Advance([run[p] EXCEPT !.rulesTriggered =
                                                  Append(@, CurrentRule(p).id)])]
    /\ UNCHANGED <<tz, clock, transactions, nRuns, overlapped, nextVars, anaVars, peerVars>>

Next ==
    \/ Tick
    \/ \E p \in Procs : SelectRules(p)
    \/ \E p \in Procs : SelectError(p)
    \/ \E p \in Procs : Deactivate(p)
    \/ \E p \in Procs : InsertTransaction(p)
    \/ \E p \in Procs : UpdateNextOccurrence(p)

Spec == Init /\ [][Next]_vars

----------------------------------------------------------------------------
(* Properties of checkAndCreateRecurringTransactions                       *)

\* the snapshot rows of run p that the loop has finished with
Handled(p) ==
    {k \in 1 .. Len(run[p].rules) : k < run[p].i}

\* the snapshot rows of run p for which the insert branch has been passed
PastInsert(p) ==
    Handled(p) \cup (IF run[p].pc = "update" THEN {run[p].i} ELSE {})

AttemptsFor(p, id) ==
    {a \in 1 .. Len(run[p].attempts) : run[p].attempts[a].recurring_rule_id = id}

\* the number of days one period of a frequency can span
PeriodDays(freq) ==
    CASE freq = "daily"     -> {1}
      [] freq = "weekly"    -> {7}
      [] freq = "biweekly"  -> {14}
      [] freq = "monthly"   -> 28 .. 31
      [] freq = "quarterly" -> 89 .. 92
      [] freq = "yearly"    -> 365 .. 366

\* C1: whenever a step changes a rule's stored next_occurrence, the step is
\* taken by a run that holds the rule in its snapshot, and the value written
\* is the snapshot's next_occurrence advanced by getNextOccurrence, one
\* period of the rule's frequency later; today does not enter into it.
C1_AdvanceFromPrevious ==
    [][\A id \in RuleIds :
         recurring_rules'[id].next_occurrence # recurring_rules[id].next_occurrence =>
            \E p \in Procs :
               /\ InFlight(p)
               /\ run'[p] # run[p]
               /\ CurrentRule(p).id = id
               /\ recurring_rules'[id].next_occurrence =
                     getNextOccurrence(CurrentRule(p).next_occurrence, CurrentRule(p).frequency)
               /\ (recurring_rules'[id].next_occurrence - CurrentRule(p).next_occurrence)
                     \in PeriodDays(CurrentRule(p).frequency)]_vars

\* a weekly rule checked more than two periods late has been advanced by
\* seven days from its previous next_occurrence
C1_Witness ==
    \E p \in Procs : \E k \in Handled(p) :
        /\ run[p].rules[k].frequency = "weekly"
        /\ ~PastEnd(run[p].rules[k])
        /\ run[p].today - run[p].rules[k].next_occurrence >= 14
        /\ recurring_rules[run[p].rules[k].id].next_occurrence =
              run[p].rules[k].next_occurrence + 7

\* C2: as long as no check has started while another was in flight, the
\* ledger never holds two entries for the same rule and the same occurrence;
\* with overlapping checks it can (C2_Witness).
SameOccurrenceTwice ==
    \E a, b \in 1 .. Len(transactions) :
        /\ a < b
        /\ transactions[a].recurring_rule_id = transactions[b].recurring_rule_id
        /\ transactions[a].occurrence = transactions[b].occurrence

C2_DoubleOnlyWhenConcurrent == ~overlapped => ~SameOccurrenceTwice

\* two checks that both read the rule at the same next_occurrence have both
\* materialized it
C2_Witness ==
    /\ overlapped
    /\ \E a, b \in 1 .. Len(transactions) :
          /\ a < b
          /\ transactions[a].recurring_rule_id = transactions[b].recurring_rule_id
          /\ transactions[a].occurrence = transactions[b].occurrence
          /\ \A p \in Procs : \E k \in Handled(p) :
                /\ run[p].rules[k].id = transactions[a].recurring_rule_id
                /\ run[p].rules[k].next_occurrence = transactions[a].occurrence
                /\ Cardinality(AttemptsFor(p, run[p].rules[k].id)) = 1

\* C3: in every run, each snapshot rule that is not past its end date and
\* has passed the insert branch has exactly one insert attempt when
\* auto_create is set, dated today and carrying the rule's merchant, amount,
\* category and account, and none when auto_create is not set, however
\* long it has been overdue.
C3_OneAttemptPerDueRule ==
    \A p \in Procs : \A k \in PastInsert(p) :
        LET rule == run[p].rules[k] IN
        ~PastEnd(rule) =>
            IF rule.auto_create
            THEN /\ Cardinality(AttemptsFor(p, rule.id)) = 1
                 /\ \A a \in AttemptsFor(p, rule.id) :
                       /\ run[p].attempts[a].transaction_date = run[p].today
                       /\ run[p].attempts[a].merchant = rule.merchant
                       /\ run[p].attempts[a].amount = rule.amount
                       /\ run[p].attempts[a].category_id = rule.category_id
                       /\ run[p].attempts[a].account_id = rule.account_id
            ELSE AttemptsFor(p, rule.id) = {}

\* a run has finished with a daily auto_create rule that was twenty periods
\* overdue and has attempted one insert for it
C3_Witness ==
    \E p \in Procs :
        /\ run[p].pc = "done"
        /\ \E k \in Handled(p) :
              /\ run[p].rules[k].auto_create
              /\ ~PastEnd(run[p].rules[k])
              /\ run[p].rules[k].frequency = "daily"
              /\ run[p].today - run[p].rules[k].next_occurrence >= 20
              /\ Cardinality(AttemptsFor(p, run[p].rules[k].id)) = 1

\* C4: a step of a run that stands at a snapshot rule past its end date
\* sets the rule's is_active to false and changes nothing else in the store
\* or the ledger, attempts no insert and leaves rulesTriggered alone; an
\* inactive rule stays inactive and no later select returns it.
C4_DeactivateOnly ==
    [][/\ \A p \in Procs :
            (run[p].pc = "loop" /\ PastEnd(CurrentRule(p)) /\ run'[p] # run[p]) =>
               /\ recurring_rules' =
                     [recurring_rules EXCEPT ![CurrentRule(p).id].is_active = FALSE]
               /\ transactions' = transactions
               /\ run'[p].attempts = run[p].attempts
               /\ run'[p].rulesTriggered = run[p].rulesTriggered
               /\ run'[p].i = run[p].i + 1
       /\ \A id \in RuleIds :
            ~recurring_rules[id].is_active => ~recurring_rules'[id].is_active
       /\ \A p \in Procs :
            (~InFlight(p) /\ run'[p] # run[p]) =>
               \A k \in 1 .. Len(run'[p].rules) :
                  recurring_rules[run'[p].rules[k].id].is_active]_vars

\* a rule has been deactivated by a finished run, its next_occurrence is
\* still due, and a later check has run without selecting it
C4_Witness ==
    \E p, q \in Procs : \E k \in Handled(p) :
        /\ PastEnd(run[p].rules[k])
        /\ ~recurring_rules[run[p].rules[k].id].is_active
        /\ recurring_rules[run[p].rules[k].id].next_occurrence = run[p].rules[k].next_occurrence
        /\ run[q].pc = "done"
        /\ nRuns = 2
        /\ recurring_rules[run[p].rules[k].id].next_occurrence <= run[q].today
        /\ \A j \in 1 .. Len(run[q].rules) : run[q].rules[j].id # run[p].rules[k].id

\* C5 as claimed: every ledger entry created for a rule that has an end_date
\* is dated on or before that end_date.
C5_NoEntryAfterEndDate ==
    \A a \in 1 .. Len(transactions) :
        LET rule == recurring_rules[transactions[a].recurring_rule_id] IN
        rule.end_date # NULL => transactions[a].transaction_date <= rule.end_date

----------------------------------------------------------------------------
(* Properties of detectRecurringTransactions                               *)

\* the expense rows of the three-month window
WindowExpenses ==
    {t \in transactions : t.type = "expense" /\ t.transaction_date >= ThreeMonthsAgo(clock)}

\* the label a candidate carries for a row's merchant
MerchantLabel(t) == IF t.merchant = "" THEN "Unknown" ELSE t.merchant

\* the occurrences of the (merchant, amount) pair of row t
Occurrences(t) ==
    {u \in WindowExpenses : u.merchant = t.merchant /\ u.amount = t.amount}

\* the occurrences a candidate stands for
OccurrencesOf(c) ==
    {u \in WindowExpenses : MerchantLabel(u) = c.merchant /\ u.amount = c.amount}

Earliest(G) == CHOOSE d \in {u.transaction_date : u \in G} :
                  \A u \in G : d <= u.transaction_date
Latest(G) == CHOOSE d \in {u.transaction_date : u \in G} :
                \A u \in G : d >= u.transaction_date

\* the class of an average gap of span / gaps days
GapClass(span, gaps) ==
    CASE span < 2 * gaps                            -> "daily"
      [] 2 * gaps <= span /\ span < 10 * gaps       -> "weekly"
      [] 10 * gaps <= span /\ span < 20 * gaps      -> "biweekly"
      [] 20 * gaps <= span /\ span < 60 * gaps      -> "monthly"
      [] 60 * gaps <= span /\ span < 120 * gaps     -> "quarterly"
      [] span >= 120 * gaps                         -> "yearly"

FourFirsts ==
    {DaysFromCivil(2024, 1, 1), DaysFromCivil(2024, 2, 1),
     DaysFromCivil(2024, 3, 1), DaysFromCivil(2024, 4, 1)}

\* C7: every candidate's frequency is the class of the average gap between
\* the consecutive occurrences of its group (the span from the earliest to
\* the latest occurrence divided by the number of gaps); a group occurring
\* on the 1st of four consecutive months is monthly.
C7_FrequencyClass ==
    returned = "detectRecurringTransactions" =>
        \A i \in 1 .. Len(suggestions) :
            LET G == OccurrencesOf(suggestions[i]) IN
            /\ Cardinality(G) >= 2
            /\ suggestions[i].frequency =
                  GapClass(Latest(G) - Earliest(G), Cardinality(G) - 1)
            /\ {u.transaction_date : u \in G} = FourFirsts =>
                  suggestions[i].frequency = "monthly"

\* the Netflix 499 group on the 1st of January to April has a monthly
\* candidate
C7_Witness ==
    /\ returned = "detectRecurringTransactions"
    /\ \E i \in 1 .. Len(suggestions) :
          /\ suggestions[i].merchant = "Netflix"
          /\ suggestions[i].amount = 499
          /\ {u.transaction_date : u \in OccurrencesOf(suggestions[i])} = FourFirsts
          /\ Cardinality(OccurrencesOf(suggestions[i])) = 4
          /\ suggestions[i].frequency = "monthly"

\* C8: there is exactly one candidate for each (merchant, amount) pair with
\* at least two occurrences and none for a pair with one; every candidate
\* has auto_create false, starts at its group's earliest occurrence and has
\* next_occurrence one period of its frequency after the latest.
C8_OneCandidatePerGroup ==
    returned = "detectRecurringTransactions" =>
        /\ \A t \in WindowExpenses :
              Cardinality({i \in 1 .. Len(suggestions) :
                             /\ suggestions[i].merchant = MerchantLabel(t)
                             /\ suggestions[i].amount = t.amount})
                 = (IF Cardinality(Occurrences(t)) >= 2 THEN 1 ELSE 0)
        /\ \A i \in 1 .. Len(suggestions) :
              LET c == suggestions[i]
                  G == OccurrencesOf(c) IN
              /\ G # {}
              /\ c.auto_create = FALSE
              /\ c.start_date = Earliest(G)
              /\ c.next_occurrence = getNextOccurrence(Latest(G), c.frequency)
              /\ (c.next_occurrence - Latest(G)) \in PeriodDays(c.frequency)

\* two pairs have a candidate each while a third pair, seen once, has none
C8_Witness ==
    /\ returned = "detectRecurringTransactions"
    /\ Len(suggestions) = 2
    /\ \E t \in WindowExpenses : Cardinality(Occurrences(t)) = 1
    /\ \E i \in 1 .. Len(suggestions) :
          /\ Cardinality(OccurrencesOf(suggestions[i])) >= 3
          /\ suggestions[i].start_date < Latest(OccurrencesOf(suggestions[i]))

----------------------------------------------------------------------------
(* Properties of detectAnomalies                                           *)

\* the rows of the three-month window
Window == {t \in transactions : t.transaction_date >= ThreeMonthsAgo(clock)}

\* the spike findings of severity high reported for transaction t
SpikesFor(t) ==
    {i \in 1 .. Len(alerts) :
        /\ alerts[i].type = "sudden_spike"
        /\ alerts[i].severity = "high"
        /\ alerts[i].amount = t.amount
        /\ alerts[i].date = t.transaction_date}

\* t is the newest row of the window, an expense of amount a, and the other
\* rows of the window are expenses of t's category with amounts 100, 102,
\* 98 and 101
SpecExample(t, a) ==
    /\ t \in Window
    /\ t.amount = a
    /\ t.type = "expense"
    /\ Cardinality(Window) = 5
    /\ \A u \in Window \ {t} :
          /\ u.type = "expense"
          /\ u.category_id = t.category_id
          /\ u.transaction_date < t.transaction_date
    /\ {u.amount : u \in Window \ {t}} = {100, 102, 98, 101}

\* C9 as claimed: on the history 100, 102, 98, 101 a new expense of 500 in
\* the same category gets a spike finding of severity high, and a new
\* expense of 103 gets none.
C9_SpecExample ==
    returned = "detectAnomalies" =>
        \A t \in Window :
            /\ SpecExample(t, 500) => SpikesFor(t) # {}
            /\ SpecExample(t, 103) => SpikesFor(t) = {}

\* the other expenses of t's category whose amount differs from t's by less
\* than 20% of t's amount
SimilarSet(t) ==
    {u \in Window : /\ u.id # t.id
                    /\ u.type = "expense"
                    /\ u.category_id = t.category_id
                    /\ 5 * Abs(u.amount - t.amount) < t.amount}

RECURSIVE SumOver(_, _)
SumOver(S, power) ==
    IF S = {} THEN 0
    ELSE LET u == CHOOSE u \in S : TRUE
         IN  (IF power = 2 THEN u.amount * u.amount ELSE u.amount) + SumOver(S \ {u}, power)

\* t.amount > mean + 2 * population stddev over t and its similar rows:
\* with n values of sum s and sum of squares q, mean = s / n and
\* stddev^2 = q / n - (s / n)^2
AboveMeanPlusTwoSigma(t) ==
    LET sample == SimilarSet(t) \cup {t}
        n == Cardinality(sample)
        s == SumOver(sample, 1)
        q == SumOver(sample, 2)
    IN  n * t.amount > s
        /\ (n * t.amount - s) * (n * t.amount - s) > 4 * (n * q - s * s)

\* C10: a spike finding of severity high is reported (once) for a window
\* transaction exactly when it is an expense, fewer than ten window
\* transactions are more recent, it has a similar transaction, and its
\* amount exceeds mean + 2 * stddev of itself and the similar ones; every
\* spike finding belongs to some window transaction.
C10_SpikeIff ==
    returned = "detectAnomalies" =>
        /\ \A t \in Window :
              Cardinality(SpikesFor(t)) =
                 (IF /\ t.type = "expense"
                     /\ Cardinality({u \in Window :
                                       u.transaction_date > t.transaction_date}) < 10
                     /\ SimilarSet(t) # {}
                     /\ AboveMeanPlusTwoSigma(t)
                  THEN 1 ELSE 0)
        /\ \A i \in 1 .. Len(alerts) :
              alerts[i].type = "sudden_spike" => \E t \in Window : i \in SpikesFor(t)

\* a spike is reported for the expense of 119 among expenses of 100, and a
\* similar expense and an income of the window get none
C10_Witness ==
    /\ returned = "detectAnomalies"
    /\ \E t \in Window : t.amount = 119 /\ SpikesFor(t) # {}
    /\ \E t \in Window : t.amount = 100 /\ SimilarSet(t) # {} /\ SpikesFor(t) = {}

----------------------------------------------------------------------------
(* C11: duplicate findings                                                  *)

\* two rows that the claim calls a duplicate pair
SameAmountKindWithinHour(a, b) ==
    /\ a.amount = b.amount
    /\ a.type = b.type
    /\ a.created_at # b.created_at
    /\ a.created_at - b.created_at < 60
    /\ b.created_at - a.created_at < 60

\* the unordered pairs of window rows, each written with the smaller id first
DuplicatePairs ==
    {p \in Window \X Window : p[1].id < p[2].id /\ SameAmountKindWithinHour(p[1], p[2])}

DuplicateFindings == SelectSeq(alerts, LAMBDA a : a.type = "duplicate")

\* C11: detectAnomalies reports exactly one duplicate finding, of severity
\* medium, for every unordered pair of window transactions with the same
\* amount and the same kind whose creation timestamps differ by more than 0
\* and less than 60 minutes, and none for any other pair: the findings are
\* as many as those pairs, and the findings carrying the date of a row are
\* as many as the row's partners later in the scan
C11_OneFindingPerPair ==
    returned = "detectAnomalies" =>
        /\ Len(DuplicateFindings) = Cardinality(DuplicatePairs)
        /\ \A k \in 1 .. Len(DuplicateFindings) :
              DuplicateFindings[k].severity = "medium"
        /\ \A t \in Window :
              Len(SelectSeq(DuplicateFindings, LAMBDA a :
                     a.date = t.transaction_date /\ a.amount = t.amount))
                = Cardinality({u \in Window :
                     /\ u.transaction_date < t.transaction_date
                     /\ SameAmountKindWithinHour(t, u)})

\* a run that reported a duplicate and passed over a pair exactly 60 minutes
\* apart and a pair of the same amount and different kinds
C11_Witness ==
    /\ returned = "detectAnomalies"
    /\ Len(DuplicateFindings) > 0
    /\ \E a, b \in Window :
          a.amount = b.amount /\ a.type = b.type /\ a.created_at - b.created_at = 60
    /\ \E a, b \in Window :
          a.amount = b.amount /\ a.type # b.type /\ a.created_at - b.created_at = 30

----------------------------------------------------------------------------
(* advancedAnalytics: getSpendingHealthScore.  The savings rate is compared *)
(* with the rungs in exact arithmetic: rate >= r is written                 *)
(* 100 * (income - expense) >= r * income.                                  *)

\* lines 591-592: setMonth(getMonth() - 1)
OneMonthAgo(today) == addMonths(today, 0 - 1)

\* lines 594-598
FetchLastMonth(today) == {t \in transactions : t.transaction_date >= OneMonthAgo(today)}

\* lines 604-610: the sum of the amounts of the rows of one type
RECURSIVE TotalOf(_, _)
TotalOf(S, type) ==
    IF S = {} THEN 0
    ELSE LET t == CHOOSE x \in S : TRUE
         IN  (IF t.type = type THEN t.amount ELSE 0) + TotalOf(S \ {t}, type)

\* variant of lines 621-639 whose rungs are strict
HealthLadder_Strict(income, expense) ==
    LET saved == 100 * (income - expense) IN
    IF saved > 35 * income THEN [score |-> 95, category |-> "Excellent"]
    ELSE IF saved > 25 * income THEN [score |-> 85, category |-> "Very Good"]
    ELSE IF saved > 15 * income THEN [score |-> 70, category |-> "Good"]
    ELSE IF saved > 5 * income THEN [score |-> 50, category |-> "Fair"]
    ELSE IF saved > 0 THEN [score |-> 30, category |-> "Needs Improvement"]
    ELSE [score |-> 10, category |-> "Critical"]

\* lines 616-639, income > 0
HealthLadder(income, expense) ==
    LET saved == 100 * (income - expense) IN
    IF saved >= 35 * income THEN [score |-> 95, category |-> "Excellent"]
    ELSE IF saved >= 25 * income THEN [score |-> 85, category |-> "Very Good"]
    ELSE IF saved >= 15 * income THEN [score |-> 70, category |-> "Good"]
    ELSE IF saved >= 5 * income THEN [score |-> 50, category |-> "Fair"]
    ELSE IF saved >= 0 THEN [score |-> 30, category |-> "Needs Improvement"]
    ELSE [score |-> 10, category |-> "Critical"]

\* lines 585-653 (the breakdown is left out)
getSpendingHealthScore(today) ==
    LET rows    == FetchLastMonth(today)
        income  == TotalOf(rows, "income")
        expense == TotalOf(rows, "expense")
    IN  IF rows = {} THEN [score |-> 0, category |-> "No Data"]
        ELSE IF income = 0 THEN [score |-> 0, category |-> "No Income"]
        ELSE HealthLadder(income, expense)

MaxExpense == 210

\* a ledger of up to three incomes, up to two expenses and a transfer of
\* the last month, and an income before it
HealthLedger(incomes, e1, e2, transfer, old) ==
    {Txn(k, "Employer", <<100, 100, 50000>>[k], "income", DetectToday - 10 - k, NoCategory, 0) :
        k \in incomes}
    \cup (IF e1 = NULL THEN {}
          ELSE {Txn(4, "Shop", e1, "expense", DetectToday - 5, "cat-1", 0)})
    \cup (IF e2 = NULL THEN {}
          ELSE {Txn(5, "Mall", e2, "expense", DetectToday - 6, "cat-2", 0)})
    \cup (IF transfer THEN {Txn(6, "Bank", 700, "transfer", DetectToday - 7, NoCategory, 0)} ELSE {})
    \cup (IF old THEN {Txn(7, "Employer", 1000, "income", DetectToday - 45, NoCategory, 0)} ELSE {})

InitHealth ==
    /\ tz \in {0, 1}
    /\ clock = DetectToday
    /\ \E incomes \in SUBSET {1, 2, 3},
          e1 \in {NULL} \cup (1 .. MaxExpense) \cup {32500, 49000},
          e2 \in {NULL, 65}, transfer \in BOOLEAN, old \in BOOLEAN :
          /\ transfer => (e2 = NULL /\ ~old)
          /\ transactions = HealthLedger(incomes, e1, e2, transfer, old)
    /\ recurring_rules = <<>>
    /\ run = <<>>
    /\ nRuns = 0
    /\ overlapped = FALSE
    /\ lastDate = NULL
    /\ frequency = "daily"
    /\ nextDate = NULL
    /\ returned = "none"
    /\ suggestions = <<>>
    /\ alerts = <<>>
    /\ timeOfDay = 0
    /\ monthsAhead = 3
    /\ InsightsIdle
    /\ NotifyIdle
    /\ imports = <<>>

\* lines 585-653
CallGetSpendingHealthScore ==
    /\ returned = "none"
    /\ returned' = "getSpendingHealthScore"
    /\ health' = getSpendingHealthScore(clock)
    /\ UNCHANGED <<tz, recurVars, nextVars, suggestions, alerts, timeOfDay,
                   monthsAhead, forecasts, patterns, notifyVars, imports, trendVars>>

\* lines 594-602: the select returned no data
HealthSelectError ==
    /\ returned = "none"
    /\ returned' = "select error"
    /\ health' = [score |-> 0, category |-> "No Data"]
    /\ UNCHANGED <<tz, recurVars, nextVars, suggestions, alerts, timeOfDay,
                   monthsAhead, forecasts, patterns, notifyVars, imports, trendVars>>

NextHealth == CallGetSpendingHealthScore \/ HealthSelectError

SpecHealth == InitHealth /\ [][NextHealth]_vars

----------------------------------------------------------------------------
(* C12: the health ladder                                                   *)

LastMonthRows == {t \in transactions : t.transaction_date >= OneMonthAgo(clock)}

IncomeTotal == SumOver({t \in LastMonthRows : t.type = "income"}, 1)

ExpenseTotal == SumOver({t \in LastMonthRows : t.type = "expense"}, 1)

\* savingsRate >= r and savingsRate < r, for an income above 0
RateAtLeast(income, expense, r) == 100 * (income - expense) >= r * income

RateBelow(income, expense, r) == 100 * (income - expense) < r * income

\* C12: getSpendingHealthScore maps the savings rate
\* (income - expense) / income * 100 to a score and label by the ladder
\* >= 35 -> 95 Excellent, >= 25 -> 85 Very Good, >= 15 -> 70 Good,
\* >= 5 -> 50 Fair, >= 0 -> 30 Needs Improvement, negative -> 10 Critical;
\* zero income gives 0 No Income and no transactions 0 No Data; income 50000
\* with expense 32500 gives 95 Excellent and with expense 49000 gives 30
\* Needs Improvement; a savings rate at least as high never scores lower
C12_HealthLadder ==
    returned = "getSpendingHealthScore" =>
        LET i == IncomeTotal
            e == ExpenseTotal
        IN
        /\ LastMonthRows = {} => health = [score |-> 0, category |-> "No Data"]
        /\ (LastMonthRows # {} /\ i = 0)
              => health = [score |-> 0, category |-> "No Income"]
        /\ i > 0 =>
              /\ RateAtLeast(i, e, 35) => health = [score |-> 95, category |-> "Excellent"]
              /\ (RateAtLeast(i, e, 25) /\ RateBelow(i, e, 35))
                    => health = [score |-> 85, category |-> "Very Good"]
              /\ (RateAtLeast(i, e, 15) /\ RateBelow(i, e, 25))
                    => health = [score |-> 70, category |-> "Good"]
              /\ (RateAtLeast(i, e, 5) /\ RateBelow(i, e, 15))
                    => health = [score |-> 50, category |-> "Fair"]
              /\ (RateAtLeast(i, e, 0) /\ RateBelow(i, e, 5))
                    => health = [score |-> 30, category |-> "Needs Improvement"]
              /\ RateBelow(i, e, 0) => health = [score |-> 10, category |-> "Critical"]
              /\ (i = 50000 /\ e = 32500) => health.score = 95
              /\ (i = 50000 /\ e = 49000) => health.score = 30
              /\ \A i2 \in {100, 200}, e2 \in 0 .. MaxExpense :
                    (i2 - e2) * i >= (i - e) * i2
                        => HealthLadder(i2, e2).score >= health.score

\* a score on the rung boundary: income 200, expense 130, savings rate 35
C12_Witness ==
    /\ returned = "getSpendingHealthScore"
    /\ IncomeTotal = 200
    /\ ExpenseTotal = 130
    /\ health = [score |-> 95, category |-> "Excellent"]

----------------------------------------------------------------------------
(* advancedAnalytics: forecastCashFlow.  Averages, trends and predictions   *)
(* are exact fractions <<numerator, denominator>> in lowest terms with a    *)
(* positive denominator; the rounding of doubles is not modelled.           *)

RECURSIVE GCD(_, _)
GCD(a, b) == IF b = 0 THEN a ELSE GCD(b, a % b)

\* the quotient n / d, d > 0
Frac(n, d) ==
    LET g == GCD(Abs(n), d) IN <<n \div g, d \div g>>

FracAdd(p, q) == Frac(p[1] * q[2] + q[1] * p[2], p[2] * q[2])

FracSub(p, q) == Frac(p[1] * q[2] - q[1] * p[2], p[2] * q[2])

FracMul(p, q) == Frac(p[1] * q[1], p[2] * q[2])

\* Math.max(0, p)
FracMax0(p) == IF p[1] < 0 THEN <<0, 1>> ELSE p

\* variant of lines 558-583 that returns the slope itself
calculateTrend_SlopeOnly(values) ==
    LET n     == Len(values)
        sumXY == SumSeq([k \in 1 .. n |-> (k - 1) * values[k]])
        sumX  == SumSeq([k \in 1 .. n |-> k - 1])
        sumX2 == SumSeq([k \in 1 .. n |-> (k - 1) * (k - 1)])
        sumY  == SumSeq(values)
        numerator   == n * sumXY - sumX * sumY
        denominator == n * sumX2 - sumX * sumX
    IN  IF n < 2 THEN <<0, 1>>
        ELSE IF denominator = 0 THEN <<0, 1>>
        ELSE IF sumY > 0 THEN Frac(numerator, denominator)
        ELSE <<0, 1>>

\* lines 558-583
calculateTrend(values) ==
    LET n     == Len(values)
        sumXY == SumSeq([k \in 1 .. n |-> (k - 1) * values[k]])
        sumX  == SumSeq([k \in 1 .. n |-> k - 1])
        sumX2 == SumSeq([k \in 1 .. n |-> (k - 1) * (k - 1)])
        sumY  == SumSeq(values)
        numerator   == n * sumXY - sumX * sumY
        denominator == n * sumX2 - sumX * sumX
    IN  IF n < 2 THEN <<0, 1>>
        ELSE IF denominator = 0 THEN <<0, 1>>
        ELSE IF sumY > 0 THEN Frac(numerator * n, denominator * sumY)
        ELSE <<0, 1>>

\* lines 494-495: setMonth(getMonth() - 6)
SixMonthsAgo(today) == addMonths(today, 0 - 6)

\* lines 497-502
FetchSixMonths(today) == {t \in transactions : t.transaction_date >= SixMonthsAgo(today)}

\* lines 511-512: the year and month that getFullYear and getMonth give
\* for new Date(transaction_date), as one number; the keys 'YYYY-MM' sort
\* as these numbers do
MonthKey(date) ==
    LET c == CivilFromDays(LocalDay(date)) IN c.y * 12 + (c.m - 1)

\* line 525: Object.keys(monthlyData).sort()
RECURSIVE SortedKeys(_)
SortedKeys(K) ==
    IF K = {} THEN <<>>
    ELSE LET k == CHOOSE x \in K : \A y \in K : x <= y
         IN  <<k>> \o SortedKeys(K \ {k})

\* lines 510-523: the total of one type in the bucket of key k
BucketTotal(rows, k, type) == TotalOf({t \in rows : MonthKey(t.transaction_date) = k}, type)

\* variant of lines 529-530 dividing by the six months of the window
Average_OverSixMonths(values) == Frac(SumSeq(values), 6)

\* lines 529-530
Average(values) == Frac(SumSeq(values), Len(values))

\* slice(-3)
LastThree(values) ==
    IF Len(values) <= 3 THEN values ELSE SubSeq(values, Len(values) - 2, Len(values))

\* variant of lines 539-540 that applies the whole trend
Predicted_FullTrend(avg, trend) ==
    FracMax0(FracMul(avg, FracAdd(<<1, 1>>, trend)))

\* lines 539-540: Math.max(0, avg * (1 + trend * 0.5))
Predicted(avg, trend) ==
    FracMax0(FracMul(avg, FracAdd(<<1, 1>>, FracMul(trend, <<1, 2>>))))

\* lines 535-536, 544: year and month of the local date of now moved i
\* months on by setMonth
FutureMonth(today, i) ==
    LET c == CivilFromDays(LocalDay(addMonths(today, i))) IN [y |-> c.y, m |-> c.m]

\* lines 508-550: the forecast from a window that has rows
ForecastFrom(rows, today, ahead) ==
    LET sortedMonths  == SortedKeys({MonthKey(t.transaction_date) : t \in rows})
        incomeValues  == [k \in 1 .. Len(sortedMonths) |->
                            BucketTotal(rows, sortedMonths[k], "income")]
        expenseValues == [k \in 1 .. Len(sortedMonths) |->
                            BucketTotal(rows, sortedMonths[k], "expense")]
        predictedIncome  == Predicted(Average(incomeValues),
                                      calculateTrend(LastThree(incomeValues)))
        predictedExpense == Predicted(Average(expenseValues),
                                      calculateTrend(LastThree(expenseValues)))
    IN  [i \in 1 .. ahead |->
            [month            |-> FutureMonth(today, i),
             predictedIncome  |-> predictedIncome,
             predictedExpense |-> predictedExpense,
             predictedSavings |-> FracSub(predictedIncome, predictedExpense),
             confidence       |-> <<3, 4>>]]

\* variant of lines 504-506 that forecasts zeros from an empty window
forecastCashFlow_ZeroFilled(today, ahead) ==
    LET rows == FetchSixMonths(today) IN
    IF rows = {}
    THEN [i \in 1 .. ahead |->
            [month            |-> FutureMonth(today, i),
             predictedIncome  |-> <<0, 1>>,
             predictedExpense |-> <<0, 1>>,
             predictedSavings |-> <<0, 1>>,
             confidence       |-> <<3, 4>>]]
    ELSE ForecastFrom(rows, today, ahead)

\* lines 490-556
forecastCashFlow(today, ahead) ==
    LET rows == FetchSixMonths(today) IN
    IF rows = {} THEN <<>> ELSE ForecastFrom(rows, today, ahead)

ForecastToday == DaysFromCivil(2024, 4, 20)

MaxMonthsAhead == 3

MonthKinds == {"none", "flat", "split", "more", "spend", "transfer"}

\* the rows of one month of 2023-24 (m = 11, 12 of 2023, else of 2024), ids
\* from 10 * m on: an income of 5 * unit on the 1st and an expense of
\* 4 * unit on the 15th (flat); the same income in two parts on the 10th
\* and the 20th (split); a higher income (more); the expense alone
\* (spend); a transfer alone
MonthRows(m, kind, unit) ==
    LET y      == IF m > 10 THEN 2023 ELSE 2024
        day(d) == DaysFromCivil(y, m, d)
        spend  == Txn(10 * m, "Shop", 4 * unit, "expense", day(15), "cat-1", 0)
    IN  CASE kind = "none"     -> {}
          [] kind = "flat"     -> {Txn(10 * m + 1, "Employer", 5 * unit, "income", day(1), NoCategory, 0),
                                   spend}
          [] kind = "split"    -> {Txn(10 * m + 1, "Employer", 2 * unit, "income", day(10), NoCategory, 0),
                                   Txn(10 * m + 2, "Employer", 3 * unit, "income", day(20), NoCategory, 0),
                                   spend}
          [] kind = "more"     -> {Txn(10 * m + 1, "Employer", 7 * unit, "income", day(1), NoCategory, 0),
                                   spend}
          [] kind = "spend"    -> {spend}
          [] kind = "transfer" -> {Txn(10 * m + 3, "Bank", unit, "transfer", day(12), NoCategory, 0)}

\* the months February to April 2024 of the kinds given, November 2023 to
\* January 2024 of the kind `earlier`, and a month before the window
ForecastLedger(kinds, earlier, unit, old) ==
    UNION {MonthRows(m, kinds[m], unit) : m \in 2 .. 4}
    \cup UNION {MonthRows(m, earlier, unit) : m \in {11, 12, 1}}
    \cup (IF old THEN {Txn(99, "Employer", 9 * unit, "income",
                           DaysFromCivil(2023, 9, 5), NoCategory, 0)}
                 ELSE {})

InitForecast ==
    /\ tz \in {0, 1}
    /\ clock = ForecastToday
    /\ monthsAhead \in {1, MaxMonthsAhead}
    /\ \E kinds \in [2 .. 4 -> MonthKinds], earlier \in {"none", "flat", "split"},
          unit \in {100, 10000}, old \in BOOLEAN :
          /\ unit = 10000 => \A m \in 2 .. 4 : kinds[m] \in {"none", "flat", "split"}
          /\ old => earlier = "none"
          /\ transactions = ForecastLedger(kinds, earlier, unit, old)
    /\ recurring_rules = <<>>
    /\ run = <<>>
    /\ nRuns = 0
    /\ overlapped = FALSE
    /\ lastDate = NULL
    /\ frequency = "daily"
    /\ nextDate = NULL
    /\ returned = "none"
    /\ suggestions = <<>>
    /\ alerts = <<>>
    /\ timeOfDay = 0
    /\ InsightsIdle
    /\ NotifyIdle
    /\ imports = <<>>

\* lines 490-556
CallForecastCashFlow ==
    /\ returned = "none"
    /\ returned' = "forecastCashFlow"
    /\ forecasts' = forecastCashFlow(clock, monthsAhead)
    /\ UNCHANGED <<tz, recurVars, nextVars, suggestions, alerts, timeOfDay,
                   monthsAhead, health, patterns, notifyVars, imports, trendVars>>

\* lines 497-506: the select returned no data
ForecastSelectError ==
    /\ returned = "none"
    /\ returned' = "select error"
    /\ forecasts' = <<>>
    /\ UNCHANGED <<tz, recurVars, nextVars, suggestions, alerts, timeOfDay,
                   monthsAhead, health, patterns, notifyVars, imports, trendVars>>

NextForecast == CallForecastCashFlow \/ ForecastSelectError

SpecForecast == InitForecast /\ [][NextForecast]_vars

----------------------------------------------------------------------------
(* C13: a flat history is forecast unchanged                                *)

SixMonthRows == {t \in transactions : t.transaction_date >= SixMonthsAgo(clock)}

\* the month, as the runtime's local calendar has it, in which a row falls
BucketOf(t) ==
    LET c == CivilFromDays(LocalDay(t.transaction_date)) IN [y |-> c.y, m |-> c.m]

\* the buckets: the months in which some row of the window falls
BucketMonths == {BucketOf(t) : t \in SixMonthRows}

BucketSum(b, type) == SumOver({t \in SixMonthRows : t.type = type /\ BucketOf(t) = b}, 1)

\* every bucket carries income I and expense E
AllBucketsCarry(I, E) ==
    /\ BucketMonths # {}
    /\ \A b \in BucketMonths : BucketSum(b, "income") = I /\ BucketSum(b, "expense") = E

\* C13: once all monthly buckets carry equal income I and equal expense E
\* (the income and expense of any one bucket, then), forecastCashFlow
\* returns for every month of the horizon income I, expense E, savings
\* I - E and confidence 0.75
C13_FlatForecast ==
    (returned = "forecastCashFlow" /\ SixMonthRows # {}) =>
        LET b == CHOOSE x \in BucketMonths : TRUE
            I == BucketSum(b, "income")
            E == BucketSum(b, "expense")
        IN  AllBucketsCarry(I, E) =>
                /\ Len(forecasts) = monthsAhead
                /\ \A i \in 1 .. Len(forecasts) :
                      /\ forecasts[i].predictedIncome = <<I, 1>>
                      /\ forecasts[i].predictedExpense = <<E, 1>>
                      /\ forecasts[i].predictedSavings = <<I - E, 1>>
                      /\ forecasts[i].confidence = <<3, 4>>

\* six months of income 50000 and expense 40000, forecast three months ahead
C13_Witness ==
    /\ returned = "forecastCashFlow"
    /\ Cardinality(BucketMonths) = 6
    /\ AllBucketsCarry(50000, 40000)
    /\ Len(forecasts) = MaxMonthsAhead
    /\ forecasts[MaxMonthsAhead].predictedSavings = <<10000, 1>>

----------------------------------------------------------------------------
(* advancedAnalytics: analyzeCategoryPatterns.  The mean is an exact        *)
(* fraction and the standard deviation is held as the fraction of which it  *)
(* is the square root.  monthStart and monthEnd carry the time of day of    *)
(* now: a row's date, the instant of its UTC midnight, is compared with     *)
(* local day X at that time of day, which is UTC day X + tz at timeOfDay.   *)

\* the categories table: the name joined to a row (categories(name))
CategoryName(id) ==
    CASE id = "cat-1" -> "Food"
      [] id = "cat-2" -> "Travel"
      [] OTHER        -> ""

\* line 447: (txn.categories as any)?.name || 'Uncategorized'
CategoryLabel(txn) ==
    IF txn.category_id = NoCategory \/ CategoryName(txn.category_id) = ""
    THEN "Uncategorized" ELSE CategoryName(txn.category_id)

\* every arrangement of the rows of S
RECURSIVE Arrangements(_)
Arrangements(S) ==
    IF S = {} THEN {<<>>}
    ELSE UNION {{<<r>> \o s : s \in Arrangements(S \ {r})} : r \in S}

\* variant of line 432 in which up to three rows come in any order
DateDescOrders_Unordered(S) ==
    IF Cardinality(S) <= 3 THEN Arrangements(S) ELSE {OrderByDateDesc(S)}

\* line 432: .order('transaction_date', { ascending: false }); the rows of
\* one date come in any order
RECURSIVE DateDescOrders(_)
DateDescOrders(S) ==
    IF S = {} THEN {<<>>}
    ELSE LET latest == {x \in S : \A y \in S : x.transaction_date >= y.transaction_date}
         IN  UNION {{<<r>> \o s : s \in DateDescOrders(S \ {r})} : r \in latest}

\* lines 424-432: the rows the select may return
FetchPatternRows(today) ==
    DateDescOrders({t \in transactions :
                      t.type = "expense" /\ t.transaction_date >= SixMonthsAgo(today)})

\* lines 444-452: the keys of categoryData in the order of first appearance
RECURSIVE LabelsInOrder(_)
LabelsInOrder(rows) ==
    IF rows = <<>> THEN <<>>
    ELSE LET front == LabelsInOrder(SubSeq(rows, 1, Len(rows) - 1))
             label == CategoryLabel(rows[Len(rows)])
         IN  IF \E k \in 1 .. Len(front) : front[k] = label THEN front
             ELSE Append(front, label)

\* lines 446-451: categoryData[category]
AmountsOf(rows, label) ==
    LET own == SelectSeq(rows, LAMBDA t : CategoryLabel(t) = label)
    IN  [k \in 1 .. Len(own) |-> own[k].amount]

\* lines 462-463: the local days of monthStart and monthEnd for month i back
MonthStart(today, i) ==
    LET c == CivilFromDays(LocalDay(addMonths(today, 0 - i)))
    IN  DaysFromCivil(c.y, c.m, 1)

MonthEnd(today, i) ==
    LET c == CivilFromDays(MonthStart(today, i))
    IN  DaysFromCivil(c.y, c.m + 1, 1) - 1

\* lines 468-469: new Date(transaction_date) >= monthStart and <= monthEnd
InMonth(date, today, i) ==
    /\ date >= MonthStart(today, i) + tz + (IF timeOfDay > 0 THEN 1 ELSE 0)
    /\ date <= MonthEnd(today, i) + tz

\* line 466: transactions.find(t => Number(t.amount) === a)
FirstWithAmount(rows, a) ==
    rows[CHOOSE k \in 1 .. Len(rows) :
            rows[k].amount = a /\ \A j \in 1 .. k - 1 : rows[j].amount # a]

\* lines 460-472: unshift puts month i at place 6 - i
MonthlyTrend(rows, amounts, today) ==
    [k \in 1 .. 6 |->
        SumSeq([j \in 1 .. Len(amounts) |->
                   IF InMonth(FirstWithAmount(rows, amounts[j]).transaction_date, today, 6 - k)
                   THEN amounts[j] ELSE 0])]

\* variant of line 479 without the cap
Confidence_Uncapped(count) == Frac(count, 10)

\* line 479: Math.min(amounts.length / 10, 1)
Confidence(count) == Frac(IF count < 10 THEN count ELSE 10, 10)

\* lines 455-480
PatternOf(rows, label, today) ==
    LET amounts == AmountsOf(rows, label)
        n       == Len(amounts)
        sum     == SumSeq(amounts)
        squares == SumSeq([k \in 1 .. n |-> amounts[k] * amounts[k]])
    IN  [category     |-> label,
         avgAmount    |-> Frac(sum, n),
         stdDeviation |-> [sqrtOf |-> Frac(n * squares - sum * sum, n * n)],
         monthlyTrend |-> MonthlyTrend(rows, amounts, today),
         confidence   |-> Confidence(n)]

\* lines 452-481: the groups of at least two amounts, in key order
RECURSIVE PatternsFor(_, _, _)
PatternsFor(rows, labels, today) ==
    IF labels = <<>> THEN <<>>
    ELSE LET front == PatternsFor(rows, SubSeq(labels, 1, Len(labels) - 1), today)
             label == labels[Len(labels)]
         IN  IF Len(AmountsOf(rows, label)) < 2 THEN front
             ELSE Append(front, PatternOf(rows, label, today))

\* p / q > r / s, denominators positive
FracGreater(p, q) == p[1] * q[2] > q[1] * p[2]

\* line 483: sort((a, b) => b.avgAmount - a.avgAmount), a stable sort
RECURSIVE SortByAvgDesc(_)
SortByAvgDesc(ps) ==
    IF ps = <<>> THEN <<>>
    ELSE LET front == SortByAvgDesc(SubSeq(ps, 1, Len(ps) - 1))
             p     == ps[Len(ps)]
             ahead == {k \in 1 .. Len(front) :
                          \A j \in k .. Len(front) : FracGreater(p.avgAmount, front[j].avgAmount)}
             at    == IF ahead = {} THEN Len(front) + 1
                      ELSE CHOOSE k \in ahead : \A j \in ahead : k <= j
         IN  SubSeq(front, 1, at - 1) \o <<p>> \o SubSeq(front, at, Len(front))

\* lines 420-488, for the rows as the select returned them
analyzeCategoryPatterns(rows, today) ==
    IF Len(rows) = 0 THEN <<>>
    ELSE SortByAvgDesc(PatternsFor(rows, LabelsInOrder(rows), today))

MaxPatternRows == 11

PatternDates == {DaysFromCivil(2024, 4, 15), DaysFromCivil(2024, 3, 31)}

\* the rows a ledger is drawn from: equal amounts in different months and
\* in different categories, rows on the first and the last day of a month,
\* rows of one date, rows without a category, two groups of equal mean, a
\* row before the window and an income
PatternPool ==
    {Txn(1, "Cafe", 100, "expense", DaysFromCivil(2024, 4, 10), "cat-1", 0),
     Txn(2, "Cafe", 100, "expense", DaysFromCivil(2024, 3, 10), "cat-1", 0),
     Txn(3, "Diner", 250, "expense", DaysFromCivil(2024, 3, 10), "cat-1", 0),
     Txn(4, "Rail", 250, "expense", DaysFromCivil(2024, 4, 1), "cat-2", 0),
     Txn(5, "Air", 300, "expense", DaysFromCivil(2024, 2, 29), "cat-2", 0),
     Txn(6, "Kiosk", 50, "expense", DaysFromCivil(2024, 1, 20), NoCategory, 0),
     Txn(7, "Kiosk", 70, "expense", DaysFromCivil(2024, 1, 20), NoCategory, 0),
     Txn(8, "Bus", 60, "expense", DaysFromCivil(2024, 1, 20), "cat-2", 0),
     Txn(9, "Bus", 60, "expense", DaysFromCivil(2024, 1, 19), "cat-2", 0),
     Txn(10, "Cafe", 100, "expense", DaysFromCivil(2023, 9, 1), "cat-1", 0),
     Txn(11, "Employer", 900, "income", DaysFromCivil(2024, 4, 5), "cat-2", 0)}

\* n expenses of one category on n days running
PatternRun(n, today) ==
    {Txn(20 + k, "Cafe", 100 + k, "expense", today - k, "cat-1", 0) : k \in 1 .. n}

InitPatterns ==
    /\ tz \in {0, 1}
    /\ timeOfDay \in {0, 1}
    /\ clock \in PatternDates
    /\ clock = DaysFromCivil(2024, 3, 31) => (tz = 0 /\ timeOfDay = 0)
    /\ \/ /\ transactions \in SUBSET PatternPool
          /\ \A t \in PatternPool : t.id \in {10, 11} => t \in transactions
       \/ /\ transactions \in SUBSET PatternPool
          /\ \A t \in transactions : t.id \notin {10, 11}
       \/ \E n \in 2 .. MaxPatternRows : transactions = PatternRun(n, clock)
    /\ recurring_rules = <<>>
    /\ run = <<>>
    /\ nRuns = 0
    /\ overlapped = FALSE
    /\ lastDate = NULL
    /\ frequency = "daily"
    /\ nextDate = NULL
    /\ returned = "none"
    /\ suggestions = <<>>
    /\ alerts = <<>>
    /\ monthsAhead = 3
    /\ InsightsIdle
    /\ NotifyIdle
    /\ imports = <<>>

\* lines 420-488; the function may be called again
CallAnalyzeCategoryPatterns ==
    /\ returned \in {"none", "analyzeCategoryPatterns"}
    /\ returned' = "analyzeCategoryPatterns"
    /\ \E rows \in FetchPatternRows(clock) :
          patterns' = analyzeCategoryPatterns(rows, clock)
    /\ UNCHANGED <<tz, recurVars, nextVars, suggestions, alerts, timeOfDay,
                   monthsAhead, health, forecasts, notifyVars, imports, trendVars>>

\* lines 426-438: the select returned no data
PatternsSelectError ==
    /\ returned = "none"
    /\ returned' = "select error"
    /\ patterns' = <<>>
    /\ UNCHANGED <<tz, recurVars, nextVars, suggestions, alerts, timeOfDay,
                   monthsAhead, health, forecasts, notifyVars, imports, trendVars>>

NextPatterns == CallAnalyzeCategoryPatterns \/ PatternsSelectError

SpecPatterns == InitPatterns /\ [][NextPatterns]_vars

----------------------------------------------------------------------------
(* C14 - C16: category patterns                                             *)

\* the expenses of the six-month window
PatternWindow ==
    {t \in transactions : t.type = "expense" /\ t.transaction_date >= SixMonthsAgo(clock)}

Reported == {patterns[k] : k \in 1 .. Len(patterns)}

CalendarMonth(date) ==
    LET c == CivilFromDays(date) IN c.y * 12 + (c.m - 1)

\* C15: for every reported group monthlyTrend has exactly 6 elements, the
\* most recent month last, and element k is the sum of the amounts of the
\* category's transactions dated in the corresponding calendar month (0 if
\* there are none)
C15_MonthlyTrend ==
    returned = "analyzeCategoryPatterns" =>
        \A p \in Reported :
            /\ Len(p.monthlyTrend) = 6
            /\ \A k \in 1 .. 6 :
                  p.monthlyTrend[k] =
                     SumOver({t \in PatternWindow :
                                 /\ CategoryLabel(t) = p.category
                                 /\ CalendarMonth(t.transaction_date)
                                       = CalendarMonth(LocalDay(clock)) - (6 - k)}, 1)

\* the observations of a category label in the window
Observations(label) == {t \in PatternWindow : CategoryLabel(t) = label}

\* C16: a category (no category counting as "Uncategorized") is reported,
\* once, exactly when it has at least 2 expense observations in the window;
\* its mean is the mean of the observations, its confidence is
\* min(count / 10, 1), and the groups come in order of non-increasing mean
C16_ReportedGroups ==
    returned = "analyzeCategoryPatterns" =>
        /\ \A t \in PatternWindow :
              (Cardinality(Observations(CategoryLabel(t))) >= 2)
                 <=> (\E p \in Reported : p.category = CategoryLabel(t))
        /\ \A j, k \in 1 .. Len(patterns) :
              patterns[j].category = patterns[k].category => j = k
        /\ \A p \in Reported :
              LET n == Cardinality(Observations(p.category)) IN
              /\ n >= 2
              /\ p.avgAmount[1] * n = SumOver(Observations(p.category), 1) * p.avgAmount[2]
              /\ p.confidence[1] * 10 = (IF n > 10 THEN 10 ELSE n) * p.confidence[2]
        /\ \A k \in 1 .. Len(patterns) - 1 :
              patterns[k].avgAmount[1] * patterns[k + 1].avgAmount[2]
                 >= patterns[k + 1].avgAmount[1] * patterns[k].avgAmount[2]

\* a group of more than ten observations, reported with confidence 1
C16_Witness ==
    /\ returned = "analyzeCategoryPatterns"
    /\ \E p \in Reported :
          Cardinality(Observations(p.category)) > 10 /\ p.confidence = <<1, 1>>

----------------------------------------------------------------------------
(* The five analytics functions over one ledger                             *)

\* the ledgers: any of five expenses and an income of the last months
InitAnalytics ==
    /\ tz \in {0, 1}
    /\ timeOfDay \in {0, 1}
    /\ clock = DaysFromCivil(2024, 4, 15)
    /\ transactions \in SUBSET {t \in PatternPool : t.id \in {1, 2, 3, 4, 5, 11}}
    /\ recurring_rules = <<>>
    /\ run = <<>>
    /\ nRuns = 0
    /\ overlapped = FALSE
    /\ lastDate = NULL
    /\ frequency = "daily"
    /\ nextDate = NULL
    /\ returned = "none"
    /\ suggestions = <<>>
    /\ alerts = <<>>
    /\ monthsAhead = 3
    /\ InsightsIdle
    /\ NotifyIdle
    /\ imports = <<>>

NextAnalytics ==
    \/ CallDetectAnomalies
    \/ CallAnalyzeCategoryPatterns
    \/ CallForecastCashFlow
    \/ CallDetectRecurring
    \/ CallGetSpendingHealthScore

SpecAnalytics == InitAnalytics /\ [][NextAnalytics]_vars

\* C17: on an empty ledger detectAnomalies, analyzeCategoryPatterns,
\* forecastCashFlow and detectRecurringTransactions each return the empty
\* sequence and getSpendingHealthScore returns score 0, none of them with
\* an error outcome
C17_EmptyLedger ==
    transactions = {} =>
        /\ returned = "detectAnomalies" => alerts = <<>>
        /\ returned = "analyzeCategoryPatterns" => patterns = <<>>
        /\ returned = "forecastCashFlow" => forecasts = <<>>
        /\ returned = "detectRecurringTransactions" => suggestions = <<>>
        /\ returned = "getSpendingHealthScore"
              => (health.score = 0 /\ health.category # "Error")
        /\ returned \in {"none", "detectAnomalies", "analyzeCategoryPatterns",
                          "forecastCashFlow", "detectRecurringTransactions",
                          "getSpendingHealthScore"}

\* the forecast has returned from an empty ledger
C17_Witness ==
    /\ transactions = {}
    /\ returned = "forecastCashFlow"
    /\ forecasts = <<>>

----------------------------------------------------------------------------
(* notificationService: the checks that go through notifications_log.  An   *)
(* instant is <<UTC day, time of day>>; a check reads now once, its log     *)
(* rows get that instant as created_at, and time has moved on when the      *)
(* next check starts.  sendNotification is modelled by the record of its    *)
(* payload (type, the id it is about, and the instant) in `sent`.           *)

AtOrAfter(a, b) == a[1] > b[1] \/ (a[1] = b[1] /\ a[2] >= b[2])

\* a row of notifications_log; created_at is set by the store
LogRow(type, subscription_id, transaction_id, at) ==
    [type |-> type, subscription_id |-> subscription_id,
     transaction_id |-> transaction_id, loan_id |-> NULL, created_at |-> at]

\* .maybeSingle(): the row when exactly one row matches, otherwise no data
MaybeSingle(rows) == IF Len(rows) = 1 THEN {rows[1]} ELSE {}

\* .limit(n)
Limit(rows, n) == SubSeq(rows, 1, IF Len(rows) < n THEN Len(rows) ELSE n)

\* lines 113-121: notificationSent
ReminderSent(log, subscription_id, today) ==
    MaybeSingle(SelectSeq(log, LAMBDA r :
        /\ r.subscription_id = subscription_id
        /\ r.type = "subscription_reminder"
        /\ AtOrAfter(r.created_at, today))) # {}

\* lines 102-108
DueSubscriptions(today) ==
    {s \in subscriptions :
        /\ s.is_active
        /\ s.next_billing_date <= addDays(today, 3)
        /\ s.next_billing_date >= today}

\* the payloads and log rows of one check for the ids in `ids`
Payloads(type, ids, at) ==
    [k \in 1 .. Len(ids) |-> [type |-> type, ref |-> ids[k], at |-> at]]

MaxChecks == 3

\* lines 96-144; the inserts of the subscriptions in `failing` return an error
CheckSubscriptionReminders ==
    /\ Len(checks) < MaxChecks
    /\ LET today    == <<clock, timeOfDay>>
           toRemind == {s.id : s \in {d \in DueSubscriptions(clock) :
                                         ~ReminderSent(notifications_log, d.id, today)}}
           ids      == RowsById(toRemind)
       IN  \E failing \in SUBSET toRemind :
             /\ sent' = sent \o Payloads("subscription_reminder", ids, today)
             /\ notifications_log' = notifications_log \o
                   SelectSeq([k \in 1 .. Len(ids) |->
                                 LogRow("subscription_reminder", ids[k], NULL, today)],
                             LAMBDA r : r.subscription_id \notin failing)
             /\ insertFailed' = insertFailed \cup
                   (IF failing = {} THEN {} ELSE {"subscription_reminder"})
    /\ checks' = Append(checks, "checkSubscriptionReminders")
    /\ timeOfDay' = timeOfDay + 1
    /\ UNCHANGED <<tz, recurVars, nextVars, anaVars, monthsAhead, insightVars,
                   subscriptions, budgets, loans, imports, trendVars>>

\* line 110: the select returned no data
SubscriptionsSelectError ==
    /\ Len(checks) < MaxChecks
    /\ checks' = Append(checks, "select error")
    /\ timeOfDay' = timeOfDay + 1
    /\ UNCHANGED <<tz, recurVars, nextVars, anaVars, monthsAhead, insightVars,
                   subscriptions, budgets, loans, notifications_log, sent, insertFailed,
                   imports, trendVars>>

RecentLimit == 10

HistoryLimit == 20

\* lines 201-211
RecentExpenses(today) ==
    Limit(OrderByDateDesc({t \in transactions :
              t.type = "expense" /\ t.transaction_date >= addDays(today, 0 - 7)}),
          RecentLimit)

\* lines 216-225; a null category_id equals no row's
HistoricalAmounts(txn, today) ==
    LET rows == Limit(OrderByDateDesc({t \in transactions :
                          /\ t.type = "expense"
                          /\ txn.category_id # NoCategory
                          /\ t.category_id = txn.category_id
                          /\ t.id # txn.id
                          /\ t.transaction_date < addDays(today, 0 - 7)}),
                      HistoryLimit)
    IN  [k \in 1 .. Len(rows) |-> rows[k].amount]

\* lines 227-233
IsSpendingAnomaly(txn, today) ==
    LET amounts == HistoricalAmounts(txn, today) IN
    Len(amounts) >= 3 /\ ExceedsTwoSigma(txn.amount, amounts)

\* variant of lines 234-239 that looks the transaction up under loan_id
AnomalySent_ByLoan(log, transaction_id) ==
    MaybeSingle(SelectSeq(log, LAMBDA r :
        r.loan_id = transaction_id /\ r.type = "spending_anomaly")) # {}

\* lines 234-241: notificationSent
AnomalySent(log, transaction_id) ==
    MaybeSingle(SelectSeq(log, LAMBDA r :
        r.transaction_id = transaction_id /\ r.type = "spending_anomaly")) # {}

\* lines 199-265; the inserts of the transactions in `failing` return an error
CheckSpendingAnomalies ==
    /\ Len(checks) < MaxChecks
    /\ LET today    == <<clock, timeOfDay>>
           recent   == RecentExpenses(clock)
           toNotify == SelectSeq(recent, LAMBDA t :
                          IsSpendingAnomaly(t, clock) /\ ~AnomalySent(notifications_log, t.id))
           ids      == [k \in 1 .. Len(toNotify) |-> toNotify[k].id]
       IN  \E failing \in SUBSET {ids[k] : k \in 1 .. Len(ids)} :
             /\ sent' = sent \o Payloads("spending_anomaly", ids, today)
             /\ notifications_log' = notifications_log \o
                   SelectSeq([k \in 1 .. Len(ids) |->
                                 LogRow("spending_anomaly", NULL, ids[k], today)],
                             LAMBDA r : r.transaction_id \notin failing)
             /\ insertFailed' = insertFailed \cup
                   (IF failing = {} THEN {} ELSE {"spending_anomaly"})
    /\ checks' = Append(checks, "checkSpendingAnomalies")
    /\ timeOfDay' = timeOfDay + 1
    /\ UNCHANGED <<tz, recurVars, nextVars, anaVars, monthsAhead, insightVars,
                   subscriptions, budgets, loans, imports, trendVars>>

\* line 213: the select returned no data
RecentSelectError ==
    /\ Len(checks) < MaxChecks
    /\ checks' = Append(checks, "select error")
    /\ timeOfDay' = timeOfDay + 1
    /\ UNCHANGED <<tz, recurVars, nextVars, anaVars, monthsAhead, insightVars,
                   subscriptions, budgets, loans, notifications_log, sent, insertFailed,
                   imports, trendVars>>

NotifyToday == DaysFromCivil(2024, 4, 15)

MaxNotifyDays == 1

\* midnight passes
NextDay ==
    /\ clock < NotifyToday + MaxNotifyDays
    /\ clock' = clock + 1
    /\ timeOfDay' = 0
    /\ UNCHANGED <<tz, recurring_rules, transactions, run, nRuns, overlapped, nextVars,
                   anaVars, monthsAhead, insightVars, notifyVars, imports, trendVars>>

Subscription(id, next_billing_date, is_active) ==
    [id |-> id, name |-> "Plan", amount |-> 199,
     next_billing_date |-> next_billing_date, is_active |-> is_active]

\* a ledger of `history` older expenses of one category and up to three
\* recent ones: one of that category, one a week old, one without category
NotifyLedger(history, amount, weekOld, loose) ==
    {Txn(10 + k, "Shop", <<100, 102, 98>>[k], "expense", NotifyToday - 20 - k, "cat-1", 0) :
        k \in 1 .. history}
    \cup {Txn(1, "Mall", amount, "expense", NotifyToday - 1, "cat-1", 0)}
    \cup (IF weekOld THEN {Txn(2, "Shop", 104, "expense", NotifyToday - 7, "cat-1", 0)}
                     ELSE {})
    \cup (IF loose THEN {Txn(3, "Mall", 500, "expense", NotifyToday, NoCategory, 0)} ELSE {})

InitNotify ==
    /\ tz \in {0, 1}
    /\ clock = NotifyToday
    /\ timeOfDay = 0
    /\ \E d1 \in {NotifyToday - 1, NotifyToday, NotifyToday + 3, NotifyToday + 4},
          a1 \in BOOLEAN, second \in BOOLEAN :
          /\ ~a1 => (d1 = NotifyToday + 3 /\ ~second)
          /\ second => d1 >= NotifyToday + 3
          /\ subscriptions = {Subscription(1, d1, a1)}
                \cup (IF second THEN {Subscription(2, NotifyToday + 1, TRUE)} ELSE {})
    /\ \E history \in {2, 3}, amount \in {101, 500}, weekOld \in BOOLEAN, loose \in BOOLEAN :
          /\ history = 2 => (amount = 500 /\ ~weekOld /\ ~loose)
          /\ transactions = NotifyLedger(history, amount, weekOld, loose)
    /\ budgets = {}
    /\ loans = {}
    /\ notifications_log = <<>>
    /\ sent = <<>>
    /\ insertFailed = {}
    /\ checks = <<>>
    /\ recurring_rules = <<>>
    /\ run = <<>>
    /\ nRuns = 0
    /\ overlapped = FALSE
    /\ lastDate = NULL
    /\ frequency = "daily"
    /\ nextDate = NULL
    /\ returned = "none"
    /\ suggestions = <<>>
    /\ alerts = <<>>
    /\ monthsAhead = 3
    /\ InsightsIdle
    /\ imports = <<>>

NextNotify ==
    \/ CheckSubscriptionReminders
    \/ SubscriptionsSelectError
    \/ CheckSpendingAnomalies
    \/ RecentSelectError
    \/ NextDay

SpecNotify == InitNotify /\ [][NextNotify]_vars

----------------------------------------------------------------------------
(* C18, C19: de-duplication through notifications_log                       *)

\* the notifications of a type sent about id `ref`
SentAbout(type, ref) ==
    {k \in 1 .. Len(sent) : sent[k].type = type /\ sent[k].ref = ref}

\* C18: over sequential runs of checkSubscriptionReminders on one day, every
\* log insert succeeding, at most one subscription_reminder is sent per
\* subscription
C18_OneReminderPerDay ==
    "subscription_reminder" \notin insertFailed =>
        \A s \in subscriptions : \A day \in NotifyToday .. NotifyToday + MaxNotifyDays :
            Cardinality({k \in SentAbout("subscription_reminder", s.id) :
                            sent[k].at[1] = day}) <= 1

\* C19: over sequential runs of checkSpendingAnomalies, every log insert
\* succeeding, at most one spending_anomaly notification is sent per
\* transaction id
C19_OneAnomalyPerTransaction ==
    "spending_anomaly" \notin insertFailed =>
        \A t \in transactions : Cardinality(SentAbout("spending_anomaly", t.id)) <= 1

\* two runs of checkSpendingAnomalies, both finding the same transaction
\* anomalous, with the one notification of the first run
C19_Witness ==
    /\ "spending_anomaly" \notin insertFailed
    /\ Len(checks) >= 2
    /\ checks[Len(checks)] = "checkSpendingAnomalies"
    /\ checks[Len(checks) - 1] = "checkSpendingAnomalies"
    /\ \E t \in transactions :
          /\ IsSpendingAnomaly(t, clock)
          /\ Cardinality(SentAbout("spending_anomaly", t.id)) = 1

----------------------------------------------------------------------------
(* bankImportService: saveBankImportTransactions.  The table transactions   *)
(* is a sequence of rows (it has no uniqueness constraint, so equal rows    *)
(* can be in it).                                                           *)

\* a parsed statement line (lines 4-11)
BankTransaction(date, amount, merchant) ==
    [date |-> date, description |-> merchant, amount |-> amount,
     type |-> "expense", merchant |-> merchant]

\* lines 169-180: the row inserted for a statement line
ImportRow(txn, userId, accountId, categoryId) ==
    [user_id |-> userId, account_id |-> accountId, amount |-> txn.amount,
     type |-> txn.type, merchant |-> txn.merchant, description |-> txn.description,
     transaction_date |-> txn.date, category_id |-> categoryId, source |-> "import"]

\* lines 154-164: existing
Existing(store, txn, userId, accountId) ==
    MaybeSingle(SelectSeq(store, LAMBDA r :
        /\ r.user_id = userId
        /\ r.account_id = accountId
        /\ r.amount = txn.amount
        /\ r.transaction_date = txn.date
        /\ r.merchant = txn.merchant)) # {}

\* lines 148-192: the loop from line k of the batch on; the inserts of the
\* lines in `failing` return an error
RECURSIVE SaveFrom(_, _, _, _, _, _, _)
SaveFrom(batch, k, store, result, userId, accountId, failing) ==
    IF k > Len(batch) THEN [store |-> store, result |-> result]
    ELSE IF Existing(store, batch[k], userId, accountId)
         THEN SaveFrom(batch, k + 1, store,
                       [result EXCEPT !.duplicates = @ + 1], userId, accountId, failing)
    ELSE IF k \in failing
         THEN SaveFrom(batch, k + 1, store,
                       [result EXCEPT !.failed = @ + 1], userId, accountId, failing)
    ELSE SaveFrom(batch, k + 1,
                  Append(store, ImportRow(batch[k], userId, accountId, NoCategory)),
                  [result EXCEPT !.success = @ + 1], userId, accountId, failing)

\* lines 142-193
saveBankImportTransactions(batch, store, userId, accountId, failing) ==
    SaveFrom(batch, 1, store, [success |-> 0, failed |-> 0, duplicates |-> 0],
             userId, accountId, failing)

ImportDate == DaysFromCivil(2024, 4, 10)

LineA == BankTransaction(ImportDate, 250, "Cafe")

LineB == BankTransaction(ImportDate, 250, "Diner")

LineC == BankTransaction(ImportDate + 1, 250, "Cafe")

\* the statements imported
ImportBatches ==
    {<<>>, <<LineA>>, <<LineC>>, <<LineA, LineB>>, <<LineA, LineA>>, <<LineA, LineB, LineC>>}

\* a row the user entered by hand for a statement line
ManualRow(txn, accountId) ==
    [ImportRow(txn, "user-1", accountId, NoCategory) EXCEPT !.source = "manual"]

\* the rows the table holds at the start: none, line A entered once or
\* twice, line A in another account, line B
ImportStores ==
    {<<>>,
     <<ManualRow(LineA, "acc-1")>>,
     <<ManualRow(LineA, "acc-1"), ManualRow(LineA, "acc-1")>>,
     <<ManualRow(LineA, "acc-2")>>,
     <<ManualRow(LineB, "acc-1")>>}

MaxImports == 2

InitImport ==
    /\ tz \in {0, 1}
    /\ clock = ImportDate + 5
    /\ transactions \in ImportStores
    /\ imports = <<>>
    /\ recurring_rules = <<>>
    /\ run = <<>>
    /\ nRuns = 0
    /\ overlapped = FALSE
    /\ lastDate = NULL
    /\ frequency = "daily"
    /\ nextDate = NULL
    /\ returned = "none"
    /\ suggestions = <<>>
    /\ alerts = <<>>
    /\ timeOfDay = 0
    /\ monthsAhead = 3
    /\ InsightsIdle
    /\ NotifyIdle

\* lines 142-193: one call, with its batch, the table before and after and
\* its result kept in `imports`
SaveBankImportTransactions ==
    /\ Len(imports) < MaxImports
    /\ \E batch \in ImportBatches : \E failing \in SUBSET (1 .. Len(batch)) :
          LET saved == saveBankImportTransactions(batch, transactions,
                                                  "user-1", "acc-1", failing)
          IN  /\ transactions' = saved.store
              /\ imports' = Append(imports,
                    [batch |-> batch, before |-> Len(transactions),
                     after |-> Len(saved.store), result |-> saved.result])
    /\ UNCHANGED <<tz, clock, recurring_rules, run, nRuns, overlapped, nextVars, anaVars,
                   timeOfDay, monthsAhead, insightVars, notifyVars, trendVars>>

NextImport == SaveBankImportTransactions

SpecImport == InitImport /\ [][NextImport]_vars

\* two rows agree on user, account, amount, date and merchant
SameImportKey(r, q) ==
    /\ r.user_id = q.user_id
    /\ r.account_id = q.account_id
    /\ r.amount = q.amount
    /\ r.transaction_date = q.transaction_date
    /\ r.merchant = q.merchant

DistinctLines(batch) == \A i, j \in 1 .. Len(batch) : batch[i] = batch[j] => i = j

\* C20: saveBankImportTransactions never inserts a transaction when the
\* store already holds one with the same user, account, amount, date and
\* merchant (no row an import appended has an equal-keyed row before it),
\* and saving the same batch of n distinct transactions again after a fully
\* successful first save inserts nothing and returns success 0, failed 0,
\* duplicates n
C20_NoDuplicateImport ==
    /\ \A k \in 1 .. Len(imports) :
          \A j \in imports[k].before + 1 .. imports[k].after :
             \A i \in 1 .. j - 1 : ~SameImportKey(transactions[i], transactions[j])
    /\ \A k \in 1 .. Len(imports) - 1 :
          (/\ imports[k + 1].batch = imports[k].batch
           /\ DistinctLines(imports[k].batch)
           /\ imports[k].result.success = Len(imports[k].batch))
            => (/\ imports[k + 1].after = imports[k + 1].before
                /\ imports[k + 1].result =
                      [success |-> 0, failed |-> 0, duplicates |-> Len(imports[k].batch)])

----------------------------------------------------------------------------
(* notificationService: checkBudgetAlerts and checkEmiReminders.  The      *)
(* local calendar day of now is LocalDay(clock).                            *)

\* line 36: new Date(now.getFullYear(), now.getMonth(), 1).toISOString()
\* .split('T')[0]; the UTC date of local midnight is the day before in a
\* zone ahead of UTC, which tz = 0 includes
StartOfMonthDates(now) ==
    LET c     == CivilFromDays(LocalDay(now))
        first == DaysFromCivil(c.y, c.m, 1)
    IN  IF tz = 0 THEN {first, first - 1} ELSE {first}

Budget(id, amount, category_id, alert_at_percentage, is_active) ==
    [id |-> id, name |-> "Plan", amount |-> amount, category_id |-> category_id,
     alert_at_percentage |-> alert_at_percentage, is_active |-> is_active]

\* lines 47-52: the expenses since startOfMonth
ExpensesSince(startOfMonth) ==
    {t \in transactions : t.type = "expense" /\ t.transaction_date >= startOfMonth}

\* lines 59-66: the rows were selected with their amount only (t.id is
\* undefined) and the lookup is not awaited, so txn is undefined and its
\* category_id equals no budget's
MatchesCategory(t, budget) == FALSE

\* lines 56-71: spent
Spent(budget, rows) ==
    IF budget.category_id # NoCategory
    THEN TotalOf({t \in rows : MatchesCategory(t, budget)}, "expense")
    ELSE TotalOf(rows, "expense")

DefaultAlertAt == 80

\* line 74: budget.alert_at_percentage || 80
AlertThreshold(budget) ==
    IF budget.alert_at_percentage = NULL \/ budget.alert_at_percentage = 0
    THEN DefaultAlertAt ELSE budget.alert_at_percentage

\* lines 73-76: (spent / amount) * 100 >= alertThreshold, amount positive
BudgetAlertDue(budget, rows) ==
    Spent(budget, rows) * 100 >= AlertThreshold(budget) * budget.amount

MaxDailyChecks == 2

\* lines 33-94; the transactions selects of the budgets in `skipped`
\* return no data
CheckBudgetAlerts ==
    /\ Len(checks) < MaxDailyChecks
    /\ LET today  == <<clock, timeOfDay>>
           active == {b \in budgets : b.is_active}
       IN  \E startOfMonth \in StartOfMonthDates(clock) :
           \E skipped \in SUBSET {b.id : b \in active} :
             LET rows == ExpensesSince(startOfMonth)
                 due  == {b.id : b \in {a \in active :
                                          a.id \notin skipped /\ BudgetAlertDue(a, rows)}}
             IN  /\ sent' = sent \o Payloads("budget_alert", RowsById(due), today)
                 /\ insertFailed' = insertFailed \cup
                       (IF skipped = {} THEN {} ELSE {"budget_alert"})
    /\ checks' = Append(checks, "checkBudgetAlerts")
    /\ timeOfDay' = timeOfDay + 1
    /\ UNCHANGED <<tz, recurVars, nextVars, anaVars, monthsAhead, insightVars,
                   subscriptions, budgets, loans, notifications_log, imports, trendVars>>

\* line 44: the select returned no data
BudgetsSelectError ==
    /\ Len(checks) < MaxDailyChecks
    /\ checks' = Append(checks, "select error")
    /\ timeOfDay' = timeOfDay + 1
    /\ UNCHANGED <<tz, recurVars, nextVars, anaVars, monthsAhead, insightVars,
                   subscriptions, budgets, loans, notifications_log, sent, insertFailed,
                   imports, trendVars>>

Loan(id, emi_day) == [id |-> id, name |-> "Home", emi_amount |-> 500, emi_day |-> emi_day]

\* lines 277-286: the local day of the date returned; `nextMonth > today`
\* compares a local midnight with now
getNextEmiDate(now, emiDay) ==
    LET c         == CivilFromDays(LocalDay(now))
        nextMonth == DaysFromCivil(c.y, c.m + 1, emiDay)
    IN  IF nextMonth > LocalDay(now) THEN nextMonth
        ELSE DaysFromCivil(c.y, c.m + 2, emiDay)

\* line 164: nextEmi >= today && nextEmi <= sevenDaysFromNow, a local
\* midnight against now and now + 7 days
EmiInWindow(nextEmi, now) ==
    /\ nextEmi > LocalDay(now) \/ (nextEmi = LocalDay(now) /\ tz = 0 /\ timeOfDay = 0)
    /\ nextEmi <= LocalDay(now) + 7

\* lines 165-171: notificationSent
EmiReminderSent(log, loan_id, today) ==
    MaybeSingle(SelectSeq(log, LAMBDA r :
        /\ r.loan_id = loan_id
        /\ r.type = "emi_reminder"
        /\ AtOrAfter(r.created_at, today))) # {}

\* lines 159-164: the loans the check takes as due
DueLoans(now) ==
    {l \in loans :
        /\ l.emi_day # NULL
        /\ l.emi_day # 0
        /\ EmiInWindow(getNextEmiDate(now, l.emi_day), now)}

\* lines 146-197; the inserts of the loans in `failing` return an error
CheckEmiReminders ==
    /\ Len(checks) < MaxDailyChecks
    /\ LET today    == <<clock, timeOfDay>>
           toRemind == {l.id : l \in {d \in DueLoans(clock) :
                                         ~EmiReminderSent(notifications_log, d.id, today)}}
           ids      == RowsById(toRemind)
       IN  \E failing \in SUBSET toRemind :
             /\ sent' = sent \o Payloads("emi_reminder", ids, today)
             /\ notifications_log' = notifications_log \o
                   SelectSeq([k \in 1 .. Len(ids) |->
                                 [LogRow("emi_reminder", NULL, NULL, today)
                                     EXCEPT !.loan_id = ids[k]]],
                             LAMBDA r : r.loan_id \notin failing)
             /\ insertFailed' = insertFailed \cup
                   (IF failing = {} THEN {} ELSE {"emi_reminder"})
    /\ checks' = Append(checks, "checkEmiReminders")
    /\ timeOfDay' = timeOfDay + 1
    /\ UNCHANGED <<tz, recurVars, nextVars, anaVars, monthsAhead, insightVars,
                   subscriptions, budgets, loans, imports, trendVars>>

\* line 157: the select returned no data
LoansSelectError ==
    /\ Len(checks) < MaxDailyChecks
    /\ checks' = Append(checks, "select error")
    /\ timeOfDay' = timeOfDay + 1
    /\ UNCHANGED <<tz, recurVars, nextVars, anaVars, monthsAhead, insightVars,
                   subscriptions, budgets, loans, notifications_log, sent, insertFailed,
                   imports, trendVars>>

DailyDates ==
    {DaysFromCivil(2024, 4, 15), DaysFromCivil(2024, 4, 28), DaysFromCivil(2024, 12, 29)}

\* the first day of the local month of now
MonthFirst(now) ==
    LET c == CivilFromDays(LocalDay(now)) IN DaysFromCivil(c.y, c.m, 1)

\* expenses of this month in two categories, one of the last day of the
\* month before, and an income
BudgetLedger(now, spend, other, lastMonth) ==
    {Txn(1, "Mall", spend, "expense", MonthFirst(now) + 9, "cat-1", 0),
     Txn(4, "Employer", 900, "income", MonthFirst(now) + 4, "cat-1", 0)}
    \cup (IF other THEN {Txn(2, "Rail", 50, "expense", MonthFirst(now), "cat-2", 0)} ELSE {})
    \cup (IF lastMonth THEN {Txn(3, "Mall", 100, "expense", MonthFirst(now) - 1, "cat-1", 0)}
                        ELSE {})

InitDaily ==
    /\ tz \in {0, 1}
    /\ clock \in DailyDates
    /\ timeOfDay \in {0, 1}
    /\ \/ /\ clock = DaysFromCivil(2024, 4, 15)
          /\ loans = {}
          /\ \E category \in {NoCategory, "cat-1"}, pct \in {NULL, 50, 100},
                active \in BOOLEAN, second \in BOOLEAN :
                budgets = {Budget(1, 200, category, pct, active)}
                    \cup (IF second THEN {Budget(2, 1000, NoCategory, NULL, TRUE)} ELSE {})
          /\ \E spend \in {50, 100, 120, 160, 200, 250}, other \in BOOLEAN,
                lastMonth \in BOOLEAN :
                transactions = BudgetLedger(clock, spend, other, lastMonth)
       \/ /\ budgets = {}
          /\ transactions = {}
          /\ \E d1 \in {NULL, 0, 2, 5, 6, 15, 18, 22, 23, 31}, second \in BOOLEAN :
                loans = {Loan(1, d1)} \cup (IF second THEN {Loan(2, 1)} ELSE {})
    /\ subscriptions = {}
    /\ notifications_log = <<>>
    /\ sent = <<>>
    /\ insertFailed = {}
    /\ checks = <<>>
    /\ recurring_rules = <<>>
    /\ run = <<>>
    /\ nRuns = 0
    /\ overlapped = FALSE
    /\ lastDate = NULL
    /\ frequency = "daily"
    /\ nextDate = NULL
    /\ returned = "none"
    /\ suggestions = <<>>
    /\ alerts = <<>>
    /\ monthsAhead = 3
    /\ InsightsIdle
    /\ imports = <<>>

NextDaily ==
    \/ CheckBudgetAlerts
    \/ BudgetsSelectError
    \/ CheckEmiReminders
    \/ LoansSelectError

SpecDaily == InitDaily /\ [][NextDaily]_vars

----------------------------------------------------------------------------
(* C21, C22: budget alerts and EMI reminders                                *)

BudgetThresholds == {50, 80, 100}

\* this month's spending against a budget: the expenses dated in the local
\* calendar month of now, of the budget's category when it has one
MonthSpending(budget) ==
    LET c == CivilFromDays(LocalDay(clock)) IN
    TotalOf({t \in transactions :
                /\ t.type = "expense"
                /\ t.transaction_date >= MonthFirst(clock)
                /\ t.transaction_date < DaysFromCivil(c.y, c.m + 1, 1)
                /\ budget.category_id # NoCategory => t.category_id = budget.category_id},
            "expense")

\* the notifications of a type about `ref` sent by the check that ran last
SentByLastCheck(type, ref) ==
    {k \in SentAbout(type, ref) : sent[k].at = <<clock, timeOfDay - 1>>}

\* C21: a checkBudgetAlerts run whose selects all returned data has sent a
\* budget_alert for every active budget and every threshold of 50%, 80%
\* and 100% of the budget amount that this month's spending against the
\* budget has reached
C21_ThresholdAlerts ==
    (/\ checks # <<>>
     /\ checks[Len(checks)] = "checkBudgetAlerts"
     /\ "budget_alert" \notin insertFailed)
      => \A b \in budgets : b.is_active =>
            \A th \in BudgetThresholds :
               MonthSpending(b) * 100 >= th * b.amount
                  => SentByLastCheck("budget_alert", b.id) # {}

\* the first calendar date on or after `today` whose day of the month is `day`
NextEmiDue(today, day) ==
    CHOOSE d \in today .. today + 62 :
        /\ CivilFromDays(d).d = day
        /\ \A e \in today .. d - 1 : CivilFromDays(e).d # day

\* C22: once checkEmiReminders has run, an emi_reminder has been sent for
\* exactly the loans with an emi_day whose next EMI due date, the first date
\* on or after today with that day of the month, is within the next 7 days
C22_EmiWithinWeek ==
    (\E k \in 1 .. Len(checks) : checks[k] = "checkEmiReminders")
      => \A l \in loans :
            (SentAbout("emi_reminder", l.id) # {})
              <=> (/\ l.emi_day \in 1 .. 31
                   /\ NextEmiDue(LocalDay(clock), l.emi_day) <= LocalDay(clock) + 7)

----------------------------------------------------------------------------
(* advancedAnalytics: calculateTrend on its own                             *)

MaxValues == 4

TrendAmounts == {0 - 2, 0, 1, 2, 5}

TrendInputs == UNION {[1 .. n -> TrendAmounts] : n \in 0 .. MaxValues}

InitTrend ==
    /\ tz = 0
    /\ clock = 0
    /\ transactions = {}
    /\ trendInput \in TrendInputs
    /\ trendRatio = <<>>
    /\ recurring_rules = <<>>
    /\ run = <<>>
    /\ nRuns = 0
    /\ overlapped = FALSE
    /\ lastDate = NULL
    /\ frequency = "daily"
    /\ nextDate = NULL
    /\ returned = "none"
    /\ suggestions = <<>>
    /\ alerts = <<>>
    /\ timeOfDay = 0
    /\ monthsAhead = 3
    /\ health = NoHealth
    /\ forecasts = <<>>
    /\ patterns = <<>>
    /\ NotifyIdle
    /\ imports = <<>>

\* lines 558-583
CallCalculateTrend ==
    /\ trendRatio = <<>>
    /\ trendRatio' = calculateTrend(trendInput)
    /\ UNCHANGED <<tz, recurVars, nextVars, anaVars, timeOfDay, monthsAhead, insightVars,
                   trendInput, notifyVars, imports>>

NextTrend == CallCalculateTrend

SpecTrend == InitTrend /\ [][NextTrend]_vars

----------------------------------------------------------------------------
(* C23: the trend ratio                                                     *)

\* p / q, q positive
FracDiv(p, q) == Frac(p[1] * q[2], p[2] * q[1])

RECURSIVE FracSum(_)
FracSum(ps) ==
    IF ps = <<>> THEN <<0, 1>> ELSE FracAdd(ps[1], FracSum(Tail(ps)))

\* the mean of a sequence of at least one number
MeanOf(ys) == Frac(SumSeq(ys), Len(ys))

\* the ordinary-least-squares slope of ys against the indices 0 .. N-1:
\* sum of (x - mean x)(y - mean y) over sum of (x - mean x)^2
OlsSlope(ys) ==
    LET n    == Len(ys)
        xbar == Frac(n - 1, 2)
        ybar == MeanOf(ys)
        dx(k) == FracSub(<<k - 1, 1>>, xbar)
    IN  FracDiv(FracSum([k \in 1 .. n |-> FracMul(dx(k), FracSub(<<ys[k], 1>>, ybar))]),
                FracSum([k \in 1 .. n |-> FracMul(dx(k), dx(k))]))

\* C23: calculateTrend returns 0 for every sequence of fewer than 2 elements
\* and for every sequence whose mean is 0; for every other sequence of
\* non-negative values it returns the least-squares slope against the
\* indices 0 .. N-1 divided by the mean
C23_TrendRatio ==
    trendRatio # <<>> =>
        /\ Len(trendInput) < 2 => trendRatio = <<0, 1>>
        /\ (Len(trendInput) >= 1 /\ SumSeq(trendInput) = 0) => trendRatio = <<0, 1>>
        /\ (/\ Len(trendInput) >= 2
            /\ SumSeq(trendInput) # 0
            /\ \A k \in 1 .. Len(trendInput) : trendInput[k] >= 0)
              => trendRatio = FracDiv(OlsSlope(trendInput), MeanOf(trendInput))

\* a rising sequence with its ratio: slope 2 over mean 8/3
C23_Witness ==
    /\ trendInput = <<1, 2, 5>>
    /\ trendRatio = <<3, 4>>

----------------------------------------------------------------------------
(* C24: the forecast points                                                 *)

\* the buckets in calendar order
RECURSIVE BucketsInOrder(_)
BucketsInOrder(B) ==
    IF B = {} THEN <<>>
    ELSE LET b == CHOOSE x \in B : \A y \in B : x.y * 12 + x.m <= y.y * 12 + y.m
         IN  <<b>> \o BucketsInOrder(B \ {b})

\* the monthly sums of one type, oldest first
MonthlySums(type) ==
    LET bs == BucketsInOrder(BucketMonths) IN [k \in 1 .. Len(bs) |-> BucketSum(bs[k], type)]

\* the trend ratio of a sequence of non-negative sums, as C23 has it
TrendOf(ys) ==
    IF Len(ys) < 2 \/ SumSeq(ys) = 0 THEN <<0, 1>>
    ELSE FracDiv(OlsSlope(ys), MeanOf(ys))

\* max(0, avg * (1 + trend * 0.5)) with the trend over the last 3 sums
Projected(type) ==
    LET sums  == MonthlySums(type)
        n     == Len(sums)
        last3 == [k \in 1 .. (IF n < 3 THEN n ELSE 3) |-> sums[k + (IF n < 3 THEN 0 ELSE n - 3)]]
        value == FracMul(MeanOf(sums), FracAdd(<<1, 1>>, FracMul(TrendOf(last3), <<1, 2>>)))
    IN  IF value[1] < 0 THEN <<0, 1>> ELSE value

\* C24: forecastCashFlow with a non-empty history and horizon H returns
\* exactly H points; every point has predictedIncome >= 0, predictedExpense
\* >= 0, predictedSavings = predictedIncome - predictedExpense and
\* confidence 0.75, with predictedIncome = max(0, avgIncome * (1 +
\* incomeTrend * 0.5)), likewise for expense, the trends taken over the
\* last 3 monthly sums; the points differ in the month label only
C24_ForecastPoints ==
    (returned = "forecastCashFlow" /\ SixMonthRows # {}) =>
        LET income  == Projected("income")
            expense == Projected("expense")
        IN  /\ Len(forecasts) = monthsAhead
            /\ \A i \in 1 .. Len(forecasts) :
                  /\ forecasts[i].predictedIncome[1] >= 0
                  /\ forecasts[i].predictedExpense[1] >= 0
                  /\ forecasts[i].predictedIncome = income
                  /\ forecasts[i].predictedExpense = expense
                  /\ forecasts[i].predictedSavings = FracSub(income, expense)
                  /\ forecasts[i].confidence = <<3, 4>>
            /\ \A i, j \in 1 .. Len(forecasts) :
                  [forecasts[i] EXCEPT !.month = 0] = [forecasts[j] EXCEPT !.month = 0]

\* a forecast of three points from a history whose income rose in the last
\* month, with a projected income off the average and negative savings
C24_Witness ==
    /\ returned = "forecastCashFlow"
    /\ Len(forecasts) = MaxMonthsAhead
    /\ Cardinality(BucketMonths) >= 3
    /\ LET sums == MonthlySums("income")
       IN  sums[Len(sums)] > sums[Len(sums) - 1]
    /\ forecasts[1].predictedIncome # MeanOf(MonthlySums("income"))
    /\ forecasts[1].predictedSavings[1] < 0

----------------------------------------------------------------------------
(* C25 - C27: stale writers, catch-up and failed inserts of the recurring   *)
(* check                                                                    *)

\* runs p and q have both finished with rule id, each from a snapshot that
\* held it at the same next_occurrence and before its end date
BothHandledStale(p, q, id) ==
    \E k \in Handled(p) : \E j \in Handled(q) :
        /\ run[p].rules[k].id = id
        /\ run[q].rules[j].id = id
        /\ run[p].rules[k].next_occurrence = run[q].rules[j].next_occurrence
        /\ ~PastEnd(run[p].rules[k])

\* C25: when two checks have both read the same next_occurrence of a rule
\* and both have written, the rule stands at that value advanced by one
\* period of its frequency: the two writes carry the same absolute value,
\* so the rule has moved on once, not twice
C25_StaleWritersAgree ==
    \A p, q \in Procs : \A id \in RuleIds :
        (p # q /\ BothHandledStale(p, q, id)) =>
            \A k \in Handled(p) :
                run[p].rules[k].id = id =>
                    /\ recurring_rules[id].next_occurrence =
                          getNextOccurrence(run[p].rules[k].next_occurrence,
                                            run[p].rules[k].frequency)
                    /\ (recurring_rules[id].next_occurrence - run[p].rules[k].next_occurrence)
                          \in PeriodDays(run[p].rules[k].frequency)

\* two overlapping checks have both finished with the weekly rule from the
\* same snapshot value, and the rule is seven days on
C25_Witness ==
    /\ overlapped
    /\ \A p \in Procs : run[p].pc = "done"
    /\ BothHandledStale(1, 2, 2)
    /\ \E k \in Handled(1) :
          /\ run[1].rules[k].id = 2
          /\ recurring_rules[2].next_occurrence = run[1].rules[k].next_occurrence + 7

\* the check repeated by one caller on one date, each call after the one
\* before has returned; the ledger is bounded by the catch-up itself
MaxOverdue == 40

InitCatchUp ==
    /\ tz \in {0, 1}
    /\ clock = Today0
    /\ \E f1 \in Frequencies, late \in {0, 1, 7, MaxOverdue}, a1 \in BOOLEAN,
          e2 \in {NULL, Today0 - 10}, a2 \in BOOLEAN :
          \* creation failures branch at every entry: few entries where they can
          /\ a1 => (late <= 7 /\ ~a2)
          /\ a2 => e2 = NULL
          /\ recurring_rules = [id \in RuleIds |->
                                  IF id = 1 THEN Rule(1, f1, NULL, Today0 - late, a1)
                                            ELSE Rule(2, "weekly", e2, Today0 - 7, a2)]
    /\ transactions = <<>>
    /\ run = [p \in Procs |-> IdleRun]
    /\ nRuns = 0
    /\ overlapped = FALSE
    /\ lastDate = NULL
    /\ frequency = "daily"
    /\ nextDate = NULL
    /\ returned = "none"
    /\ suggestions = <<>>
    /\ alerts = <<>>
    /\ timeOfDay = 0
    /\ monthsAhead = 3
    /\ InsightsIdle
    /\ NotifyIdle
    /\ imports = <<>>

\* lines 1017-1033: the next check of caller 1 starts
RepeatCheck ==
    /\ ~InFlight(1)
    /\ run' = [run EXCEPT ![1] = Snapshot(clock)]
    /\ UNCHANGED <<tz, clock, recurring_rules, transactions, nRuns, overlapped,
                   nextVars, anaVars, peerVars>>

NextCatchUp ==
    \/ RepeatCheck
    \/ Deactivate(1)
    \/ InsertTransaction(1)
    \/ UpdateNextOccurrence(1)

\* a call that was made returns: every await of the check completes
SpecCatchUp == InitCatchUp /\ [][NextCatchUp]_vars /\ WF_vars(NextCatchUp)

\* no active rule without end date is due
CaughtUp ==
    \A id \in RuleIds :
        (recurring_rules[id].is_active /\ recurring_rules[id].end_date = NULL)
            => recurring_rules[id].next_occurrence > clock

\* C26: every write of the check strictly increases the rule's
\* next_occurrence; repeated sequentially on one date the check eventually
\* leaves every active rule without end date at a next_occurrence after
\* that date, however many periods it was overdue, and a check started from
\* then on triggers no such rule and creates no ledger entry
C26_CatchUpTerminates ==
    /\ [][\A id \in RuleIds :
            /\ recurring_rules'[id].next_occurrence >= recurring_rules[id].next_occurrence
            /\ (/\ InFlight(1)
                /\ run'[1].rulesTriggered # run[1].rulesTriggered
                /\ CurrentRule(1).id = id)
                  => recurring_rules'[id].next_occurrence
                        > recurring_rules[id].next_occurrence]_vars
    /\ <>[]CaughtUp
    /\ [][(CaughtUp /\ ~InFlight(1))
            => /\ transactions' = transactions
               /\ recurring_rules' = recurring_rules
               /\ \A k \in 1 .. Len(run'[1].rules) :
                     recurring_rules[run'[1].rules[k].id].end_date # NULL]_vars

\* a weekly rule MaxOverdue days overdue has been caught up, six periods
\* on, and a further check has found nothing due
C26_Witness ==
    /\ CaughtUp
    /\ recurring_rules[1].frequency = "weekly"
    /\ recurring_rules[1].next_occurrence = clock - MaxOverdue + 42
    /\ run[1].pc = "done"
    /\ run[1].rules = <<>>

\* the attempts of run p whose insert returned an error
FailedAttempts(p) ==
    {a \in 1 .. Len(run[p].attempts) : ~run[p].attempts[a].created}

\* C27: a failed insert for a due auto_create rule is counted in
\* failedCreations and not in transactionsCreated; the step after it writes
\* the rule's advanced next_occurrence and lists the rule in
\* rulesTriggered; and, checks running one after the other, no other check
\* attempts the occurrence that failed
C27_FailedInsertAdvances ==
    /\ [](\A p \in Procs :
            /\ run[p].failedCreations = Cardinality(FailedAttempts(p))
            /\ run[p].transactionsCreated =
                  Len(run[p].attempts) - Cardinality(FailedAttempts(p))
            /\ \A a \in FailedAttempts(p) :
                  LET id == run[p].attempts[a].recurring_rule_id IN
                  /\ (a < Len(run[p].attempts) \/ run[p].pc # "update")
                        => \E k \in 1 .. Len(run[p].rulesTriggered) :
                              run[p].rulesTriggered[k] = id
                  /\ ~overlapped =>
                        \A q \in Procs \ {p} : \A b \in 1 .. Len(run[q].attempts) :
                            ~(/\ run[q].attempts[b].recurring_rule_id = id
                              /\ run[q].attempts[b].occurrence = run[p].attempts[a].occurrence))
    /\ [][\A p \in Procs :
            (/\ run[p].pc = "update"
             /\ run'[p] # run[p]
             /\ ~run[p].attempts[Len(run[p].attempts)].created)
              => /\ recurring_rules'[CurrentRule(p).id].next_occurrence =
                       getNextOccurrence(CurrentRule(p).next_occurrence,
                                         CurrentRule(p).frequency)
                 /\ recurring_rules'[CurrentRule(p).id].next_occurrence
                       > CurrentRule(p).next_occurrence
                 /\ run'[p].rulesTriggered =
                       Append(run[p].rulesTriggered, CurrentRule(p).id)]_vars

\* a check whose insert for the daily rule failed has finished; the next
\* check, started after it, attempted the following occurrence and the
\* ledger holds no entry for the one that failed
C27_Witness ==
    /\ ~overlapped
    /\ nRuns = 2
    /\ \A p \in Procs : run[p].pc = "done"
    /\ \E p \in Procs : \E a \in FailedAttempts(p) :
          LET id == run[p].attempts[a].recurring_rule_id
              q  == CHOOSE x \in Procs : x # p
          IN  /\ run[p].failedCreations = 1
              /\ run[p].transactionsCreated = 0
              /\ \E b \in 1 .. Len(run[q].attempts) :
                    /\ run[q].attempts[b].recurring_rule_id = id
                    /\ run[q].attempts[b].occurrence > run[p].attempts[a].occurrence
              /\ \A t \in 1 .. Len(transactions) :
                    ~(/\ transactions[t].recurring_rule_id = id
                      /\ transactions[t].occurrence = run[p].attempts[a].occurrence)

----------------------------------------------------------------------------
(* C28: the smallest sample that can give a spike                           *)

SampleAmounts == {80, 99, 100, 101, 119}

\* in no sample of 5 or fewer of these amounts does the first exceed the
\* mean by more than two population deviations
SmallSamplesBelowTwoSigma ==
    \A n \in 1 .. 5 : \A amounts \in [1 .. n -> SampleAmounts] :
        ~ExceedsTwoSigma(amounts[1], amounts)

====
